---- MODULE Spec2Model ----
(***************************************************************************)
(* KiBot: the component pipeline of VariantOptions.run, the reversible     *)
(* board mutations of VariantOptions (out_base.py) and their callers in    *)
(* PCB_PrintOptions (out_pcb_print.py).                                    *)
(*                                                                         *)
(* The board is a sequence of footprints in the order the host iterates    *)
(* them (GS.get_modules_board).  A footprint has a reference, graphical    *)
(* items (id, class, layer, two corner points), pads (a layer set each)    *)
(* and 3D models (a file name, a sequence of characters, each).            *)
(***************************************************************************)
EXTENDS Integers, Sequences, FiniteSets, TLC

\* Number of consecutive apply/restore cycles explored.
MaxCycles == 2

\* Python's None, where the value is otherwise an object (a record here).
None == [none |-> TRUE]

Min(a, b) == IF a < b THEN a ELSE b

Max(a, b) == IF a > b THEN a ELSE b

RECURSIVE Pow2(_)
Pow2(n) == IF n = 0 THEN 1 ELSE 2 * Pow2(n - 1)

\* ---------------------------------------------------------------- layers
\* The board layers in the bit order of the host's layer set.
LayerOrder == <<"F.Cu", "B.Cu", "F.Adhes", "B.Adhes", "F.Paste", "B.Paste",
                "F.SilkS", "B.SilkS", "F.Mask", "B.Mask", "F.Fab", "B.Fab", "Rescue">>

NNibbles == (Len(LayerOrder) + 3) \div 4

LayerBit(l) == CHOOSE i \in 1..Len(LayerOrder) : LayerOrder[i] = l

\* LSET.FmtHex: the layer set as hexadecimal digits, most significant first.
FmtHex(ls) ==
    [k \in 1..NNibbles |->
        LET n == NNibbles - k
            bit(j) == IF 4 * n + j + 1 <= Len(LayerOrder) /\ LayerOrder[4 * n + j + 1] \in ls
                      THEN Pow2(j) ELSE 0
        IN  bit(0) + bit(1) + bit(2) + bit(3)]

\* LSET.ParseHex: the layer set a string of hexadecimal digits stands for.
ParseHex(res) ==
    {LayerOrder[i] : i \in {j \in 1..Len(LayerOrder) :
        LET n == (j - 1) \div 4
        IN  n < Len(res) /\ (res[Len(res) - n] \div Pow2((j - 1) % 4)) % 2 = 1}}

\* GS.work_layer
work_layer == "Rescue"

\* ------------------------------------------------------------ components
\* `if not self._comps`: self._comps is None or an empty list, both <<>> here.
NoComps(comps) == comps = <<>>

\* get_refs_hash: {c.ref: c for c in self._comps}, a later entry replaces an earlier one.
get_refs_hash(comps) ==
    IF NoComps(comps) THEN None
    ELSE [r \in {comps[i].ref : i \in 1..Len(comps)} |->
            comps[CHOOSE i \in 1..Len(comps) :
                    /\ comps[i].ref = r
                    /\ \A j \in 1..Len(comps) : comps[j].ref = r => j <= i]]

\* comps_hash.get(ref, None)
HashGet(hash, ref) == IF ref \in DOMAIN hash THEN hash[ref] ELSE None

\* `c and not c.fitted`: the excluded components that are not fitted as well.
IsNotFittedOrExcluded(c) == c /= None /\ ~c.fitted

\* `c and c.included and not c.fitted`
IsNotFitted(c) == c /= None /\ c.included /\ ~c.fitted

\* ------------------------------------------------------------------ Rect
\* gi.GetBoundingBox(): the rectangle spanned by the two corner points.
GetBoundingBox(gi) ==
    [x1 |-> Min(gi.x1, gi.x2), y1 |-> Min(gi.y1, gi.y2),
     x2 |-> Max(gi.x1, gi.x2), y2 |-> Max(gi.y1, gi.y2)]

\* Rect.Union: an empty Rect (x1 is None) takes the other rectangle.
RectUnion(r, bb) ==
    IF r = None THEN bb
    ELSE [x1 |-> Min(r.x1, bb.x1), y1 |-> Min(r.y1, bb.y1),
          x2 |-> Max(r.x2, bb.x2), y2 |-> Max(r.y2, bb.y2)]

\* The loop of cross_modules measuring the graphics (no text) of one layer.
RECURSIVE MeasureLayer(_, _, _, _)
MeasureLayer(gis, layer, i, rect) ==
    IF i > Len(gis) THEN rect
    ELSE MeasureLayer(gis, layer, i + 1,
            IF gis[i].cls = "MGRAPHIC" /\ gis[i].layer = layer
            THEN RectUnion(rect, GetBoundingBox(gis[i])) ELSE rect)

\* An id no graphical item of the footprint has: the identity of a new object.
NewId(gis) == CHOOSE n \in 1..(Len(gis) + 1) : \A i \in 1..Len(gis) : gis[i].id /= n

\* m.Add(item): the host inserts the item in the footprint's drawings.
ModuleAdd(m, item) == [m EXCEPT !.gi = <<item>> \o @]

\* m.Remove(line): takes the item with that identity out of the footprint.
ModuleRemove(m, id) == [m EXCEPT !.gi = SelectSeq(@, LAMBDA g : g.id /= id)]

\* cross_module: two segments, the diagonals of rect, in `layer`.
\* The result is the footprint and the identities of the two segments.
cross_module(m, rect, layer) ==
    LET id1  == NewId(m.gi)
        seg1 == [id |-> id1, cls |-> "MGRAPHIC", layer |-> layer,
                 x1 |-> rect.x1, y1 |-> rect.y1, x2 |-> rect.x2, y2 |-> rect.y2]
        m1   == ModuleAdd(m, seg1)
        id2  == NewId(m1.gi)
        seg2 == [id |-> id2, cls |-> "MGRAPHIC", layer |-> layer,
                 x1 |-> rect.x1, y1 |-> rect.y2, x2 |-> rect.x2, y2 |-> rect.y1]
    IN  [m |-> ModuleAdd(m1, seg2), lines |-> <<id1, id2>>]

\* The body of the loop of cross_modules for footprint i; <<>> is the None
\* appended for a layer without graphics (`if restore:` treats both alike).
CrossOne(st, i, hash) ==
    LET m     == st.board[i]
        c     == HashGet(hash, m.ref)
        frect == MeasureLayer(m.gi, "F.Fab", 1, None)
        brect == MeasureLayer(m.gi, "B.Fab", 1, None)
        fr    == IF frect /= None THEN cross_module(m, frect, "F.Fab")
                 ELSE [m |-> m, lines |-> <<>>]
        br    == IF brect /= None THEN cross_module(fr.m, brect, "B.Fab")
                 ELSE [m |-> fr.m, lines |-> <<>>]
    IN  IF IsNotFitted(c)
        THEN [board |-> [st.board EXCEPT ![i] = br.m],
              extra_ffab_lines |-> Append(st.extra_ffab_lines, fr.lines),
              extra_bfab_lines |-> Append(st.extra_bfab_lines, br.lines)]
        ELSE st

RECURSIVE CrossLoop(_, _, _)
CrossLoop(st, i, hash) ==
    IF i > Len(st.board) THEN st ELSE CrossLoop(CrossOne(st, i, hash), i + 1, hash)

\* cross_modules: the board and the fields of self it leaves.
cross_modules(board, s, hash, gs) ==
    IF hash = None \/ ~gs.global_cross_footprints_for_dnp
    THEN [board |-> board, self |-> s]
    ELSE LET r == CrossLoop([board |-> board, extra_ffab_lines |-> <<>>,
                             extra_bfab_lines |-> <<>>], 1, hash)
         IN  [board |-> r.board,
              self  |-> [s EXCEPT !.extra_ffab_lines = r.extra_ffab_lines,
                                  !.extra_bfab_lines = r.extra_bfab_lines]]

RECURSIVE RemoveLines(_, _, _)
RemoveLines(m, restore, k) ==
    IF k > Len(restore) THEN m
    ELSE RemoveLines(ModuleRemove(m, restore[k]), restore, k + 1)

\* The body of the loop of uncross_modules for footprint i (pop(0) of both lists).
UncrossOne(st, i, hash) ==
    LET m  == st.board[i]
        c  == HashGet(hash, m.ref)
        m1 == RemoveLines(m, Head(st.extra_ffab_lines), 1)
        m2 == RemoveLines(m1, Head(st.extra_bfab_lines), 1)
    IN  IF IsNotFitted(c)
        THEN [board |-> [st.board EXCEPT ![i] = m2],
              extra_ffab_lines |-> Tail(st.extra_ffab_lines),
              extra_bfab_lines |-> Tail(st.extra_bfab_lines)]
        ELSE st

RECURSIVE UncrossLoop(_, _, _)
UncrossLoop(st, i, hash) ==
    IF i > Len(st.board) THEN st ELSE UncrossLoop(UncrossOne(st, i, hash), i + 1, hash)

uncross_modules(board, s, hash, gs) ==
    IF hash = None \/ ~gs.global_cross_footprints_for_dnp
    THEN [board |-> board, self |-> s]
    ELSE LET r == UncrossLoop([board |-> board, extra_ffab_lines |-> s.extra_ffab_lines,
                               extra_bfab_lines |-> s.extra_bfab_lines], 1, hash)
         IN  [board |-> r.board,
              self  |-> [s EXCEPT !.extra_ffab_lines = r.extra_ffab_lines,
                                  !.extra_bfab_lines = r.extra_bfab_lines]]

\* ------------------------------------------------------- paste and glue
\* gi.SetLayer(layer) through a kept reference <<footprint index, item id>>.
SetLayerOf(board, gref, layer) ==
    [board EXCEPT ![gref[1]].gi =
        [k \in 1..Len(@) |-> IF @[k].id = gref[2] THEN [@[k] EXCEPT !.layer = layer] ELSE @[k]]]

RECURSIVE SetLayerAll(_, _, _, _)
SetLayerAll(board, grefs, k, layer) ==
    IF k > Len(grefs) THEN board
    ELSE SetLayerAll(SetLayerOf(board, grefs[k], layer), grefs, k + 1, layer)

\* A slip in the pad loop: only F.Paste is in the set of excluded layers.
PadWithoutFrontPaste(pad_layers) ==
    LET is_front == "F.Paste" \in pad_layers
        removed  == pad_layers \ {"F.Paste"}
    IN  IF Cardinality(removed) = 0
        THEN removed \cup {IF is_front THEN "F.Mask" ELSE "B.Mask"}
        ELSE removed

\* The pad loop of remove_paste_and_glue: the layer set a pad is left with.
PadWithoutPaste(pad_layers) ==
    LET is_front == "F.Paste" \in pad_layers
        removed  == pad_layers \ {"F.Paste", "B.Paste"}
    IN  IF Cardinality(removed) = 0
        THEN removed \cup {IF is_front THEN "F.Mask" ELSE "B.Mask"}
        ELSE removed

\* The references of the graphical items of footprint i that are in `layer`, in order.
ItemsInLayer(board, i, layer) ==
    LET gis == board[i].gi
        sel == SelectSeq(gis, LAMBDA g : g.layer = layer)
    IN  [k \in 1..Len(sel) |-> <<i, sel[k].id>>]

\* The body of the loop of remove_paste_and_glue for footprint i.
RemovePasteOne(st, i, hash, gs) ==
    LET m    == st.board[i]
        c    == HashGet(hash, m.ref)
        b1   == IF gs.global_remove_solder_paste_for_dnp
                THEN [st.board EXCEPT ![i].pads = [k \in 1..Len(@) |-> PadWithoutPaste(@[k])]]
                ELSE st.board
        ol   == IF gs.global_remove_solder_paste_for_dnp
                THEN Append(st.old_layers, [k \in 1..Len(m.pads) |-> FmtHex(m.pads[k])])
                ELSE st.old_layers
        fa   == ItemsInLayer(st.board, i, "F.Adhes")
        ba   == ItemsInLayer(st.board, i, "B.Adhes")
        b2   == IF gs.global_remove_adhesive_for_dnp
                THEN SetLayerAll(SetLayerAll(b1, fa, 1, work_layer), ba, 1, work_layer)
                ELSE b1
    IN  IF IsNotFitted(c)
        THEN [board |-> b2, old_layers |-> ol,
              old_fadhes |-> IF gs.global_remove_adhesive_for_dnp
                             THEN st.old_fadhes \o fa ELSE st.old_fadhes,
              old_badhes |-> IF gs.global_remove_adhesive_for_dnp
                             THEN st.old_badhes \o ba ELSE st.old_badhes]
        ELSE st

RECURSIVE RemovePasteLoop(_, _, _, _)
RemovePasteLoop(st, i, hash, gs) ==
    IF i > Len(st.board) THEN st
    ELSE RemovePasteLoop(RemovePasteOne(st, i, hash, gs), i + 1, hash, gs)

remove_paste_and_glue(board, s, hash, gs) ==
    IF hash = None \/ ~(gs.global_remove_solder_paste_for_dnp \/ gs.global_remove_adhesive_for_dnp)
    THEN [board |-> board, self |-> s]
    ELSE LET r == RemovePasteLoop([board |-> board, old_layers |-> <<>>,
                                   old_fadhes |-> <<>>, old_badhes |-> <<>>], 1, hash, gs)
         IN  [board |-> r.board,
              self  |-> [s EXCEPT !.old_layers = r.old_layers,
                                  !.old_fadhes = r.old_fadhes,
                                  !.old_badhes = r.old_badhes]]

\* A slip in restore_paste_and_glue: old_layers.pop() takes the record saved last.
RestorePasteOneLast(st, i, hash) ==
    LET c       == HashGet(hash, st.board[i].ref)
        restore == st.old_layers[Len(st.old_layers)]
    IN  IF IsNotFitted(c)
        THEN [board |-> [st.board EXCEPT ![i].pads =
                            [k \in 1..Len(@) |-> IF k <= Len(restore) THEN ParseHex(restore[k])
                                                 ELSE @[k]]],
              old_layers |-> SubSeq(st.old_layers, 1, Len(st.old_layers) - 1)]
        ELSE st

\* The body of the first loop of restore_paste_and_glue for footprint i:
\* old_layers.pop(0), then restore.pop(0) for each pad.
RestorePasteOne(st, i, hash) ==
    LET m       == st.board[i]
        c       == HashGet(hash, m.ref)
        restore == Head(st.old_layers)
    IN  IF IsNotFitted(c)
        THEN [board |-> [st.board EXCEPT ![i].pads = [k \in 1..Len(@) |-> ParseHex(restore[k])]],
              old_layers |-> Tail(st.old_layers)]
        ELSE st

RECURSIVE RestorePasteLoop(_, _, _)
RestorePasteLoop(st, i, hash) ==
    IF i > Len(st.board) THEN st
    ELSE RestorePasteLoop(RestorePasteOne(st, i, hash), i + 1, hash)

restore_paste_and_glue(board, s, hash, gs) ==
    IF hash = None THEN [board |-> board, self |-> s]
    ELSE LET r  == IF gs.global_remove_solder_paste_for_dnp
                   THEN RestorePasteLoop([board |-> board, old_layers |-> s.old_layers], 1, hash)
                   ELSE [board |-> board, old_layers |-> s.old_layers]
             b2 == IF gs.global_remove_adhesive_for_dnp
                   THEN SetLayerAll(SetLayerAll(r.board, s.old_fadhes, 1, "F.Adhes"),
                                    s.old_badhes, 1, "B.Adhes")
                   ELSE r.board
         IN  [board |-> b2, self |-> [s EXCEPT !.old_layers = r.old_layers]]

\* ------------------------------------------------------------------- fab
\* `c is not None and not c.included`
IsExcluded(c) == c /= None /\ ~c.included

\* The body of the loop of remove_fab for footprint i.
RemoveFabOne(st, i, hash) ==
    LET m  == st.board[i]
        c  == HashGet(hash, m.ref)
        ff == ItemsInLayer(st.board, i, "F.Fab")
        bf == ItemsInLayer(st.board, i, "B.Fab")
    IN  IF IsExcluded(c)
        THEN [board |-> SetLayerAll(SetLayerAll(st.board, ff, 1, work_layer), bf, 1, work_layer),
              old_ffab |-> st.old_ffab \o ff, old_bfab |-> st.old_bfab \o bf]
        ELSE st

RECURSIVE RemoveFabLoop(_, _, _)
RemoveFabLoop(st, i, hash) ==
    IF i > Len(st.board) THEN st ELSE RemoveFabLoop(RemoveFabOne(st, i, hash), i + 1, hash)

remove_fab(board, s, hash) ==
    IF hash = None THEN [board |-> board, self |-> s]
    ELSE LET r == RemoveFabLoop([board |-> board, old_ffab |-> <<>>, old_bfab |-> <<>>], 1, hash)
         IN  [board |-> r.board,
              self  |-> [s EXCEPT !.old_ffab = r.old_ffab, !.old_bfab = r.old_bfab]]

\* A slip in restore_fab: the items taken from B.Fab are put in F.Fab.
restore_fab_to_front(board, s, hash) ==
    IF hash = None THEN [board |-> board, self |-> s]
    ELSE [board |-> SetLayerAll(SetLayerAll(board, s.old_ffab, 1, "F.Fab"), s.old_bfab, 1, "F.Fab"),
          self  |-> s]

restore_fab(board, s, hash) ==
    IF hash = None THEN [board |-> board, self |-> s]
    ELSE [board |-> SetLayerAll(SetLayerAll(board, s.old_ffab, 1, "F.Fab"), s.old_bfab, 1, "B.Fab"),
          self  |-> s]

\* ------------------------------------------------------------- strings
\* Strings the code takes apart are sequences of one-character strings.
DISABLE_3D_MODEL_TEXT ==
    <<"_", "D", "i", "s", "a", "b", "l", "e", "d", "_", "b", "y", "_", "K", "i", "B", "o", "t">>

\* str.split(',')
RECURSIVE SplitFrom(_, _, _, _)
SplitFrom(str, i, acc, cur) ==
    IF i > Len(str) THEN Append(acc, cur)
    ELSE IF str[i] = "," THEN SplitFrom(str, i + 1, Append(acc, cur), <<>>)
    ELSE SplitFrom(str, i + 1, acc, Append(cur, str[i]))

Split(str) == SplitFrom(str, 1, <<>>, <<>>)

\* int(v) for a string of decimal digits
RECURSIVE ToInt(_, _, _)
ToInt(v, i, acc) ==
    IF i > Len(v) THEN acc
    ELSE ToInt(v, i + 1, 10 * acc + (CHOOSE d \in 0..9 : ToString(d) = v[i]))

\* s[:-n] for n > 0
DropLast(str, n) == SubSeq(str, 1, Max(0, Len(str) - n))

\* ------------------------------------------------------- 3D model lists
\* m.Models() is a list; pop() takes the last element, push_front and
\* push_back add at the two ends.  A list popped empty and appended to a
\* Python list is that list reversed.
Reverse(l) == [k \in 1..Len(l) |-> l[Len(l) + 1 - k]]

RECURSIVE PushFrontAll(_, _, _)
PushFrontAll(models, l, k) ==
    IF k > Len(l) THEN models ELSE PushFrontAll(<<l[k]>> \o models, l, k + 1)

\* c.get_field_value(GS.global_field_3D_model): '' when the field is absent
get_field_value(c) == c.field_3D_model

\* The renaming loop of replace_3D_models: models_l[i].m_Filename = new_model[i]
RenameAll(models_l, new_model) ==
    [i \in 1..Len(models_l) |-> [models_l[i] EXCEPT !.file = new_model[i]]]

\* A slip in replace_3D_models: the counts are compared for any footprint with models.
replace_3D_models_any_count(st, i, new_model, c) ==
    LET models_l  == Reverse(st.board[i].models)
        c_models  == Len(models_l)
        names     == IF c_models > 0 THEN Split(new_model) ELSE <<new_model>>
        replaced  == [k \in 1..c_models |-> models_l[k].file]
    IN  IF c_models > 0 /\ c_models /= Len(names)
        THEN [st EXCEPT !.board[i].models = <<>>, !.err = "KiPlotConfigurationError"]
        ELSE [st EXCEPT !.board[i].models = PushFrontAll(<<>>, RenameAll(models_l, names), 1),
                        !.self.undo_3d_models_rep =
                            [r \in (DOMAIN @) \cup {c.ref} |-> IF r = c.ref THEN replaced ELSE @[r]]]

\* replace_3D_models for footprint i.  The models are popped before the
\* count is checked, so the raise leaves the footprint without models.
replace_3D_models(st, i, new_model, c) ==
    LET models_l  == Reverse(st.board[i].models)
        c_models  == Len(models_l)
        names     == IF c_models > 1 THEN Split(new_model) ELSE <<new_model>>
        replaced  == [k \in 1..c_models |-> models_l[k].file]
        renamed   == RenameAll(models_l, names)
    IN  IF c_models > 1 /\ c_models /= Len(names)
        THEN [st EXCEPT !.board[i].models = <<>>, !.err = "KiPlotConfigurationError"]
        ELSE [st EXCEPT !.board[i].models = PushFrontAll(<<>>, renamed, 1),
                        !.self.undo_3d_models_rep =
                            [r \in (DOMAIN @) \cup {c.ref} |-> IF r = c.ref THEN replaced ELSE @[r]]]

\* The body of the loop of undo_3d_models_rename for footprint i.  replaced[i]
\* past the end of the list is an IndexError, raised with the models popped.
UndoRenameOne(st, i) ==
    LET m        == st.board[i]
        models_l == Reverse(m.models)
        has      == m.ref \in DOMAIN st.self.undo_3d_models_rep
        replaced == IF has THEN st.self.undo_3d_models_rep[m.ref] ELSE <<>>
        fixed    == [k \in 1..Len(models_l) |->
                        IF replaced /= <<>> THEN [models_l[k] EXCEPT !.file = replaced[k]]
                        ELSE models_l[k]]
    IN  IF replaced /= <<>> /\ Len(models_l) > Len(replaced)
        THEN [st EXCEPT !.board[i].models = <<>>, !.err = "IndexError"]
        ELSE [st EXCEPT !.board[i].models = PushFrontAll(<<>>, fixed, 1)]

RECURSIVE UndoRenameLoop(_, _)
UndoRenameLoop(st, i) ==
    IF i > Len(st.board) \/ st.err /= "" THEN st ELSE UndoRenameLoop(UndoRenameOne(st, i), i + 1)

\* undo_3d_models_rename: the two dictionaries are reset after the loop.
undo_3d_models_rename(st) ==
    LET r == UndoRenameLoop(st, 1)
    IN  IF r.err /= "" THEN r ELSE [r EXCEPT !.self.undo_3d_models_rep = <<>>]

\* The body of the loop of remove_3D_models for footprint i.
Remove3DOne(st, i, hash) ==
    LET m         == st.board[i]
        c         == HashGet(hash, m.ref)
        new_model == get_field_value(c)
    IN  IF c = None THEN st
        ELSE IF c.included /\ ~c.fitted
        THEN [st EXCEPT !.board[i].models = <<>>,
                        !.rem_models = Append(@, Reverse(m.models))]
        ELSE IF new_model /= <<>> THEN replace_3D_models(st, i, new_model, c)
        ELSE st

RECURSIVE Remove3DLoop(_, _, _)
Remove3DLoop(st, i, hash) ==
    IF i > Len(st.board) \/ st.err /= "" THEN st
    ELSE Remove3DLoop(Remove3DOne(st, i, hash), i + 1, hash)

\* remove_3D_models: self.rem_models is assigned after the loop only.
remove_3D_models(board, s, hash) ==
    IF hash = None THEN [board |-> board, self |-> s, err |-> ""]
    ELSE LET r == Remove3DLoop([board |-> board, self |-> s, err |-> "", rem_models |-> <<>>],
                               1, hash)
         IN  [board |-> r.board, err |-> r.err,
              self  |-> IF r.err /= "" THEN r.self
                        ELSE [r.self EXCEPT !.rem_models = r.rem_models]]

\* The body of the loop of restore_3D_models for footprint i.
Restore3DOne(st, i, hash) ==
    LET m == st.board[i]
        c == HashGet(hash, m.ref)
    IN  IF IsNotFitted(c)
        THEN [st EXCEPT !.board[i].models = PushFrontAll(@, Head(st.self.rem_models), 1),
                        !.self.rem_models = Tail(@)]
        ELSE st

RECURSIVE Restore3DLoop(_, _, _)
Restore3DLoop(st, i, hash) ==
    IF i > Len(st.board) THEN st ELSE Restore3DLoop(Restore3DOne(st, i, hash), i + 1, hash)

restore_3D_models(board, s, hash) ==
    LET r == undo_3d_models_rename([board |-> board, self |-> s, err |-> ""])
    IN  IF r.err /= "" \/ hash = None THEN r ELSE Restore3DLoop(r, 1, hash)

\* ------------------------------------------------------- 3D slot masking
\* `[int(v) for v in slots if v]`
SlotNumbers(slots) == {ToInt(slots[k], 1, 0) : k \in {j \in 1..Len(slots) : slots[j] /= <<>>}}

\* A slip in apply_list_of_3D_models: the 0-based index is looked up in the slots.
apply_list_of_3D_models_0_based(enable, slots, models) ==
    [i \in 1..Len(models) |->
        IF (i - 1) \notin SlotNumbers(slots)
        THEN IF enable
             THEN [models[i] EXCEPT !.file = DropLast(@, Len(DISABLE_3D_MODEL_TEXT))]
             ELSE [models[i] EXCEPT !.file = @ \o DISABLE_3D_MODEL_TEXT]
        ELSE models[i]]

\* apply_list_of_3D_models on a list of models: the list is rebuilt in its
\* order, the models whose 1-based index is not a slot are renamed.
apply_list_of_3D_models(enable, slots, models) ==
    [i \in 1..Len(models) |->
        IF i \notin SlotNumbers(slots)
        THEN IF enable
             THEN [models[i] EXCEPT !.file = DropLast(@, Len(DISABLE_3D_MODEL_TEXT))]
             ELSE [models[i] EXCEPT !.file = @ \o DISABLE_3D_MODEL_TEXT]
        ELSE models[i]]

\* `match.group(2).split(',') if match.group(2) else []`
SlotsOf(text) == IF text.group2 /= <<>> THEN Split(text.group2) ELSE <<>>

\* self.variant.name if self.variant else 'None'
VariantName(variant) == IF variant /= None THEN variant.name ELSE "None"

\* self.variant.matches_variant(var), of the variant classes
matches_variant(variant, var) == var \in variant.tags

\* The loop over the graphical items of one footprint in apply_3D_variant_aspect.
\* acc: models, default (None as [none |-> TRUE]), slots, matched, done (break), err.
ScanText(acc, gi, variant, enable) ==
    LET text  == gi.text
        slots == SlotsOf(text)
    IN  IF gi.cls /= "MTEXT" \/ text.kind = "plain" THEN acc
        ELSE IF text.kind = "generic"
        THEN LET def     == IF text.var = "_default_" THEN [slots |-> slots] ELSE acc.default
                 matched == IF text.var = "_default_" THEN acc.matched
                            ELSE text.var = VariantName(variant)
             IN  [acc EXCEPT !.default = def, !.slots = slots, !.matched = matched,
                             !.done = matched,
                             !.models = IF matched
                                        THEN apply_list_of_3D_models(enable, slots, @) ELSE @]
        ELSE IF variant = None
        THEN [acc EXCEPT !.slots = slots, !.err = "AttributeError", !.done = TRUE]
        ELSE LET matched == matches_variant(variant, text.var)
             IN  [acc EXCEPT !.slots = slots, !.matched = matched, !.done = matched,
                             !.models = IF matched
                                        THEN apply_list_of_3D_models(enable, slots, @) ELSE @]

RECURSIVE ScanTexts(_, _, _, _, _)
ScanTexts(acc, gis, k, variant, enable) ==
    IF k > Len(gis) \/ acc.done THEN acc
    ELSE ScanTexts(ScanText(acc, gis[k], variant, enable), gis, k + 1, variant, enable)

\* The body of the loop of apply_3D_variant_aspect for one footprint: after the
\* texts, the fall back to `_default_` is applied with the variable `slots`.
VariantAspectOne(m, variant, enable) ==
    LET acc == ScanTexts([models |-> m.models, default |-> None, slots |-> <<>>,
                          matched |-> FALSE, done |-> FALSE, err |-> ""],
                         m.gi, 1, variant, enable)
    IN  IF acc.err = "" /\ ~acc.matched /\ acc.default /= None
        THEN [acc EXCEPT !.models = apply_list_of_3D_models(enable, acc.slots, @)]
        ELSE acc

RECURSIVE VariantAspectLoop(_, _, _, _)
VariantAspectLoop(st, i, variant, enable) ==
    IF i > Len(st.board) \/ st.err /= "" THEN st
    ELSE LET r == VariantAspectOne(st.board[i], variant, enable)
         IN  VariantAspectLoop([st EXCEPT !.board[i].models = r.models, !.err = r.err],
                               i + 1, variant, enable)

apply_3D_variant_aspect(board, s, enable) ==
    VariantAspectLoop([board |-> board, self |-> s, err |-> ""], 1, s.variant, enable)

\* ------------------------------------------------------------ highlight
\* The name NamedTemporaryFile gives the n-th file it creates.
TmpName(n) == <<"/", "t", "m", "p", "/", ToString(n), ".", "w", "r", "l">>

\* create_3D_highlight_file: fs is the set of temporary files on disk and the
\* number of files created so far.
create_3D_highlight_file(s, fs) ==
    IF s.highlight_3D_file /= <<>> THEN [self |-> s, fs |-> fs]
    ELSE [self |-> [s EXCEPT !.highlight_3D_file = TmpName(fs.created + 1)],
          fs   |-> [files |-> fs.files \cup {TmpName(fs.created + 1)},
                    created |-> fs.created + 1]]

\* highlight_3D_models.  Scale, rotation and offset of the highlight model are
\* left out; `hl` tells the model the code builds from the models of the board.
highlight_3D_models(board, s, fs, highlight) ==
    IF highlight = {} THEN [board |-> board, self |-> s, fs |-> fs]
    ELSE LET cr == create_3D_highlight_file(s, fs)
             hl == [file |-> cr.self.highlight_3D_file, hl |-> TRUE]
         IN  [board |-> [i \in 1..Len(board) |->
                            IF board[i].ref \in highlight
                            THEN [board[i] EXCEPT !.models = Append(@, hl)]
                            ELSE board[i]],
              self  |-> [cr.self EXCEPT !.highlighted_3D_components = highlight],
              fs    |-> cr.fs]

\* A slip in unhighlight_3D_models: the first model is taken instead of the last.
UnhighlightOneFront(st, i) ==
    IF st.board[i].ref \notin st.self.highlighted_3D_components THEN st
    ELSE IF st.board[i].models = <<>> THEN [st EXCEPT !.err = "IndexError"]
    ELSE [st EXCEPT !.board[i].models = Tail(@)]

\* Models().pop() on an empty list fails in the host.
UnhighlightOne(st, i) ==
    IF st.board[i].ref \notin st.self.highlighted_3D_components THEN st
    ELSE IF st.board[i].models = <<>> THEN [st EXCEPT !.err = "IndexError"]
    ELSE [st EXCEPT !.board[i].models = SubSeq(@, 1, Len(@) - 1)]

RECURSIVE UnhighlightLoop(_, _)
UnhighlightLoop(st, i) ==
    IF i > Len(st.board) \/ st.err /= "" THEN st ELSE UnhighlightLoop(UnhighlightOne(st, i), i + 1)

unhighlight_3D_models(board, s) ==
    IF s.highlighted_3D_components = {} THEN [board |-> board, self |-> s, err |-> ""]
    ELSE LET r == UnhighlightLoop([board |-> board, self |-> s, err |-> ""], 1)
         IN  IF r.err /= "" THEN r ELSE [r EXCEPT !.self.highlighted_3D_components = {}]

\* remove_highlight_3D_file
remove_highlight_3D_file(s, fs) ==
    IF s.highlight_3D_file /= <<>>
    THEN [self |-> [s EXCEPT !.highlight_3D_file = <<>>],
          fs   |-> [fs EXCEPT !.files = @ \ {s.highlight_3D_file}]]
    ELSE [self |-> s, fs |-> fs]

\* ================================================================ state
VARIABLES
    board,    \* GS.board: the footprints, in the host's iteration order
    self,     \* the fields of the options object (VariantOptions / PCB_PrintOptions)
    GS,       \* the global options
    fs,       \* temporary highlight files on disk, and how many were created
    pc,       \* the position of the run in the calls below
    call,     \* the arguments of the filter call in progress
    err,      \* the exception that ended the run, "" when none
    orig,     \* history: the board when the last filter call started
    applied,  \* history: the board when the last filter call returned
    cycles,   \* history: the number of filter calls started
    trace     \* history: the steps of VariantOptions.run, in call order

vars == <<board, self, GS, fs, pc, call, err, orig, applied, cycles, trace>>

\* The hash the mutations are given: filter_components and unfilter_components
\* build it on each call, filter_pcb_components keeps it in self.comps_hash.
CurHash == IF call.kind = "print" THEN get_refs_hash(self.comps) ELSE self.comps_hash

\* `hasattr(self, 'hide_excluded') and self.hide_excluded`; PCB_PrintOptions has the attribute.
HideExcluded == self.has_hide_excluded /\ self.hide_excluded

After2D == IF call.do_3D THEN "var3d" ELSE "filtered"

AfterUn2D == IF call.do_3D THEN "restore3d" ELSE "idle"

\* One call made by a handler: its result r replaces board and self, an
\* exception ends the run, and the history follows.
Step(r, error, next) ==
    /\ board' = r.board
    /\ self' = r.self
    /\ err' = error
    /\ pc' = IF error /= "" THEN "failed" ELSE next
    /\ applied' = IF error = "" /\ next = "filtered" THEN r.board ELSE applied
    /\ UNCHANGED <<GS, call, orig, cycles, trace>>

\* No call in progress; `undo` tells the unfilter call of a filter call, `step`
\* and `comps` are the statement VariantOptions.run is at and its local list.
NoCall ==
    [kind |-> "none", do_2D |-> FALSE, do_3D |-> FALSE, highlight |-> {}, undo |-> FALSE,
     step |-> 0, comps |-> <<>>]

\* ------------------------------------------------------------- handlers
\* PCB_PrintOptions.filter_components
filter_components ==
    /\ pc = "idle"
    /\ cycles < MaxCycles
    /\ self.has_hide_excluded
    /\ call' = [NoCall EXCEPT !.kind = "print", !.do_2D = TRUE]
    /\ pc' = IF NoComps(self.comps) THEN "filtered" ELSE "cross"
    /\ orig' = board
    /\ applied' = IF NoComps(self.comps) THEN board ELSE applied
    /\ cycles' = cycles + 1
    /\ UNCHANGED <<board, self, GS, fs, err, trace>>

\* PCB_PrintOptions.unfilter_components
unfilter_components ==
    /\ pc = "filtered"
    /\ call.kind = "print"
    /\ pc' = IF NoComps(self.comps) THEN "idle" ELSE "uncross"
    /\ call' = [call EXCEPT !.undo = TRUE]
    /\ UNCHANGED <<board, self, GS, fs, err, orig, applied, cycles, trace>>

CallCrossModules ==
    /\ pc = "cross"
    /\ Step(cross_modules(board, self, CurHash, GS), "", "paste")
    /\ UNCHANGED fs

CallRemovePasteAndGlue ==
    /\ pc = "paste"
    /\ Step(remove_paste_and_glue(board, self, CurHash, GS), "",
            IF HideExcluded THEN "fab" ELSE After2D)
    /\ UNCHANGED fs

CallRemoveFab ==
    /\ pc = "fab"
    /\ Step(remove_fab(board, self, CurHash), "", After2D)
    /\ UNCHANGED fs

CallUncrossModules ==
    /\ pc = "uncross"
    /\ Step(uncross_modules(board, self, CurHash, GS), "", "unpaste")
    /\ UNCHANGED fs

CallRestorePasteAndGlue ==
    /\ pc = "unpaste"
    /\ Step(restore_paste_and_glue(board, self, CurHash, GS), "",
            IF HideExcluded THEN "unfab" ELSE AfterUn2D)
    /\ UNCHANGED fs

CallRestoreFab ==
    /\ pc = "unfab"
    /\ Step(restore_fab(board, self, CurHash), "", AfterUn2D)
    /\ UNCHANGED fs

\* VariantOptions.filter_pcb_components(board, do_3D, do_2D, highlight)
filter_pcb_components(do_3D, do_2D, highlight) ==
    /\ pc = "idle"
    /\ cycles < MaxCycles
    /\ call' = [NoCall EXCEPT !.kind = "pcb", !.do_2D = do_2D, !.do_3D = do_3D,
                               !.highlight = highlight]
    /\ pc' = IF NoComps(self.comps) THEN "filtered"
             ELSE IF do_2D THEN "cross"
             ELSE IF do_3D THEN "var3d" ELSE "filtered"
    /\ self' = IF NoComps(self.comps) THEN self
               ELSE [self EXCEPT !.comps_hash = get_refs_hash(self.comps)]
    /\ orig' = board
    /\ applied' = IF pc' = "filtered" THEN board ELSE applied
    /\ cycles' = cycles + 1
    /\ UNCHANGED <<board, GS, fs, err, trace>>

\* VariantOptions.unfilter_pcb_components(board, do_3D, do_2D), with the flags of the filter call
unfilter_pcb_components ==
    /\ pc = "filtered"
    /\ call.kind = "pcb"
    /\ pc' = IF NoComps(self.comps) THEN "idle"
             ELSE IF call.do_2D THEN "uncross"
             ELSE IF call.do_3D THEN "restore3d" ELSE "idle"
    /\ call' = [call EXCEPT !.undo = TRUE]
    /\ UNCHANGED <<board, self, GS, fs, err, orig, applied, cycles, trace>>

CallApply3DVariantAspect ==
    /\ pc = "var3d"
    /\ LET r == apply_3D_variant_aspect(board, self, FALSE)
       IN  Step(r, r.err, "rem3d")
    /\ UNCHANGED fs

CallRemove3DModels ==
    /\ pc = "rem3d"
    /\ LET r == remove_3D_models(board, self, CurHash)
       IN  Step(r, r.err, "hl")
    /\ UNCHANGED fs

CallHighlight3DModels ==
    /\ pc = "hl"
    /\ LET r == highlight_3D_models(board, self, fs, call.highlight)
       IN  /\ Step(r, "", "filtered")
           /\ fs' = r.fs

CallRestore3DModels ==
    /\ pc = "restore3d"
    /\ LET r == restore_3D_models(board, self, CurHash)
       IN  Step(r, r.err, "enable3d")
    /\ UNCHANGED fs

CallEnable3DVariantAspect ==
    /\ pc = "enable3d"
    /\ LET r == apply_3D_variant_aspect(board, self, TRUE)
       IN  Step(r, r.err, "unhl")
    /\ UNCHANGED fs

CallUnhighlight3DModels ==
    /\ pc = "unhl"
    /\ LET r == unhighlight_3D_models(board, self)
       IN  Step(r, r.err, "idle")
    /\ UNCHANGED fs

\* VariantOptions.remove_highlight_3D_file, called by the output once it is done
CallRemoveHighlight3DFile ==
    /\ pc = "idle"
    /\ self.highlight_3D_file /= <<>>
    /\ LET r == remove_highlight_3D_file(self, fs)
       IN  /\ self' = r.self
           /\ fs' = r.fs
    /\ UNCHANGED <<board, GS, pc, call, err, orig, applied, cycles, trace>>

\* ================================================================ boards
AFile == <<"a", ".", "w", "r", "l">>

BFile == <<"b", ".", "s", "t", "e", "p">>

Graphic(id, layer, x1, y1, x2, y2) ==
    [id |-> id, cls |-> "MGRAPHIC", layer |-> layer, x1 |-> x1, y1 |-> y1, x2 |-> x2, y2 |-> y2,
     text |-> [kind |-> "plain", var |-> "", group2 |-> <<>>]]

Text(id, layer, kind, var, group2) ==
    [id |-> id, cls |-> "MTEXT", layer |-> layer, x1 |-> 0, y1 |-> 0, x2 |-> 1, y2 |-> 1,
     text |-> [kind |-> kind, var |-> var, group2 |-> group2]]

Model(file) == [file |-> file, hl |-> FALSE]

\* Footprints for the 2D mutations: a top SMD part with paste, glue and a pad
\* that is on paste only; a bottom SMD part; a through-hole part with
\* graphics on both Fab layers and no paste.
Footprint2D(ref, kind) ==
    IF kind = "top"
    THEN [ref |-> ref,
          gi |-> <<Graphic(1, "F.Fab", 0, 0, 4, 2), Graphic(2, "F.Fab", 3, 1, 1, 5),
                   Text(3, "F.Fab", "plain", "", <<>>), Graphic(4, "F.Adhes", 1, 1, 2, 2),
                   Graphic(5, "F.SilkS", 0, 0, 4, 4)>>,
          pads |-> <<{"F.Cu", "F.Paste", "F.Mask"}, {"F.Paste"}>>,
          models |-> <<Model(AFile)>>]
    ELSE IF kind = "bottom"
    THEN [ref |-> ref,
          gi |-> <<Graphic(1, "B.Adhes", 0, 0, 1, 1), Graphic(2, "B.Fab", 2, 2, 6, 3),
                   Text(3, "B.Fab", "plain", "", <<>>)>>,
          pads |-> <<{"B.Cu", "B.Paste", "B.Mask"}, {"B.Paste"}, {"F.Paste", "B.Paste"}>>,
          models |-> <<Model(AFile), Model(BFile)>>]
    ELSE [ref |-> ref,
          gi |-> <<Graphic(1, "F.Fab", 0, 0, 3, 3), Graphic(2, "B.Fab", 0, 0, 3, 3),
                   Text(3, "F.SilkS", "plain", "", <<>>)>>,
          pads |-> <<{"F.Cu", "B.Cu", "F.Mask", "B.Mask"}>>,
          models |-> <<>>]

\* The boards of the 2D runs: R1, R2 and C1 take each kind of footprint, and
\* one board has no footprint for C1 and two footprints with the reference R2.
Boards2D ==
    {<<Footprint2D("R1", "top"), Footprint2D("R2", "bottom"), Footprint2D("C1", "tht")>>,
     <<Footprint2D("R1", "tht"), Footprint2D("R2", "top"), Footprint2D("C1", "bottom")>>,
     <<Footprint2D("R1", "bottom"), Footprint2D("R2", "tht"), Footprint2D("R2", "top")>>}

Refs == <<"R1", "R2", "C1">>

\* What the filters decided for a component; "unknown" is a footprint the
\* component list does not hold.
Decisions == {"unknown", "fitted", "not_fitted", "excluded", "excluded_not_fitted"}

Component(ref, d, field) ==
    [ref |-> ref, fitted |-> d \in {"fitted", "excluded"},
     included |-> d \in {"fitted", "not_fitted"}, field_3D_model |-> field, config |-> ""]

\* The component list for a decision and a field value per reference, in schematic order.
RECURSIVE CompList(_, _, _)
CompList(d, f, k) ==
    IF k > Len(Refs) THEN <<>>
    ELSE (IF d[Refs[k]] = "unknown" THEN <<>> ELSE <<Component(Refs[k], d[Refs[k]], f[Refs[k]])>>)
         \o CompList(d, f, k + 1)

RefSet == {Refs[k] : k \in 1..Len(Refs)}

NoFields == [r \in RefSet |-> <<>>]

SelfInit ==
    [comps |-> <<>>, comps_hash |-> None, variant |-> None,
     dnf_filter |-> None, pre_transform |-> None,
     has_hide_excluded |-> FALSE, hide_excluded |-> FALSE,
     extra_ffab_lines |-> <<>>, extra_bfab_lines |-> <<>>,
     old_layers |-> <<>>, old_fadhes |-> <<>>, old_badhes |-> <<>>,
     old_ffab |-> <<>>, old_bfab |-> <<>>,
     rem_models |-> <<>>, undo_3d_models_rep |-> <<>>,
     highlight_3D_file |-> <<>>, highlighted_3D_components |-> {}]

\* The 2D runs start with the component list VariantOptions.run left and the
\* options of the configuration.
Init2D ==
    /\ board \in Boards2D
    /\ \E d \in [RefSet -> Decisions], has \in BOOLEAN, hide \in BOOLEAN :
        /\ (hide => has)
        /\ self = [SelfInit EXCEPT !.comps = CompList(d, NoFields, 1),
                                   !.has_hide_excluded = has, !.hide_excluded = hide]
    /\ GS \in [global_cross_footprints_for_dnp : BOOLEAN,
               global_remove_solder_paste_for_dnp : BOOLEAN,
               global_remove_adhesive_for_dnp : BOOLEAN]
    /\ fs = [files |-> {}, created |-> 0]
    /\ pc = "idle"
    /\ call = NoCall
    /\ err = ""
    /\ orig = board
    /\ applied = board
    /\ cycles = 0
    /\ trace = <<>>

Next2D ==
    \/ filter_components
    \/ unfilter_components
    \/ filter_pcb_components(FALSE, TRUE, {})
    \/ unfilter_pcb_components
    \/ CallCrossModules
    \/ CallRemovePasteAndGlue
    \/ CallRemoveFab
    \/ CallUncrossModules
    \/ CallRestorePasteAndGlue
    \/ CallRestoreFab

Spec2D == Init2D /\ [][Next2D]_vars

\* ------------------------------------------------------------ 3D boards
One == <<"1">>

Two == <<"2">>

\* The magic texts of a footprint, all in F.Fab: %var:slots% is the generic
\* form, $var:slots$ the variant specific one.
Texts3D(kind) ==
    IF kind = "plain" THEN <<Text(1, "F.Fab", "plain", "", <<>>)>>
    ELSE IF kind = "named" THEN <<Text(1, "F.Fab", "generic", "v1", One)>>
    ELSE IF kind = "named_none" THEN <<Text(1, "F.Fab", "generic", "v1", <<>>)>>
    ELSE IF kind = "default_first"
    THEN <<Text(1, "F.Fab", "generic", "_default_", One), Text(2, "F.Fab", "generic", "other", Two)>>
    ELSE IF kind = "default_last"
    THEN <<Text(1, "F.Fab", "generic", "other", Two), Text(2, "F.Fab", "generic", "_default_", One)>>
    ELSE IF kind = "default_named"
    THEN <<Text(1, "F.Fab", "generic", "_default_", Two), Text(2, "F.Fab", "generic", "v1", One)>>
    ELSE <<Text(1, "F.Fab", "specific", "t1", Two)>>

Kinds3D == {"plain", "named", "named_none", "default_first", "default_last", "default_named",
            "specific"}

Footprint3D(ref, kind, models) ==
    [ref |-> ref, gi |-> Texts3D(kind) \o <<Graphic(3, "F.CrtYd", 0, 0, 2, 2)>>,
     pads |-> <<{"F.Cu", "F.Paste", "F.Mask"}>>, models |-> models]

\* The boards of the 3D runs: R1 takes every kind of magic text with two
\* models, one model or none, R2 has two models and no rule or a named one.
Boards3D ==
    {<<Footprint3D("R1", k1, m1), Footprint3D("R2", k2, <<Model(BFile), Model(AFile)>>)>> :
        k1 \in Kinds3D, k2 \in {"plain", "named"},
        m1 \in {<<Model(AFile), Model(BFile)>>, <<Model(AFile)>>, <<>>}}

\* A variant: its name and the tags matches_variant accepts.
Variants == {None, [name |-> "v1", tags |-> {"t1"}, not_fitted |-> {}, excluded |-> {}]}

\* The values of the field GS.global_field_3D_model: none, one name, two names.
FieldValues == {<<>>, <<"n">>, <<"n", ",", "m">>}

\* The 3D runs start with the component list VariantOptions.run left for R1 and R2.
Init3D ==
    /\ board \in Boards3D
    /\ \E d \in [RefSet -> Decisions], f \in [RefSet -> FieldValues], v \in Variants :
        /\ d["C1"] = "unknown" /\ f["C1"] = <<>>
        /\ d["R2"] /= "excluded"
        /\ (d["R1"] \in {"unknown", "not_fitted"} => f["R1"] = <<>>)
        /\ (d["R2"] \in {"unknown", "not_fitted"} => f["R2"] = <<>>)
        /\ Len(f["R2"]) <= 1
        /\ self = [SelfInit EXCEPT !.comps = CompList(d, f, 1), !.variant = v]
    /\ GS = [global_cross_footprints_for_dnp |-> FALSE,
             global_remove_solder_paste_for_dnp |-> FALSE,
             global_remove_adhesive_for_dnp |-> FALSE]
    /\ fs = [files |-> {}, created |-> 0]
    /\ pc = "idle"
    /\ call = NoCall
    /\ err = ""
    /\ orig = board
    /\ applied = board
    /\ cycles = 0
    /\ trace = <<>>

Next3D ==
    \/ \E highlight \in SUBSET {"R1", "R2"} : filter_pcb_components(TRUE, FALSE, highlight)
    \/ unfilter_pcb_components
    \/ CallApply3DVariantAspect
    \/ CallRemove3DModels
    \/ CallHighlight3DModels
    \/ CallRestore3DModels
    \/ CallEnable3DVariantAspect
    \/ CallUnhighlight3DModels
    \/ CallRemoveHighlight3DFile

Spec3D == Init3D /\ [][Next3D]_vars

\* --------------------------------------------- direct calls of the aspect
\* Number of direct calls of apply_3D_variant_aspect explored.
MaxCalls == 3

\* apply_3D_variant_aspect(board, enable) called on its own, in any direction.
direct_apply_3D_variant_aspect(enable) ==
    /\ pc = "idle"
    /\ Len(trace) < MaxCalls
    /\ LET r == apply_3D_variant_aspect(board, self, enable)
       IN  /\ board' = r.board
           /\ err' = r.err
           /\ pc' = IF r.err /= "" THEN "failed" ELSE "idle"
    /\ orig' = board
    /\ call' = [NoCall EXCEPT !.kind = IF enable THEN "enable" ELSE "disable"]
    /\ trace' = Append(trace, IF enable THEN "enable" ELSE "disable")
    /\ UNCHANGED <<self, GS, fs, applied, cycles>>

InitAspect ==
    /\ board \in Boards3D
    /\ \E v \in Variants : self = [SelfInit EXCEPT !.variant = v]
    /\ GS = [global_cross_footprints_for_dnp |-> FALSE,
             global_remove_solder_paste_for_dnp |-> FALSE,
             global_remove_adhesive_for_dnp |-> FALSE]
    /\ fs = [files |-> {}, created |-> 0]
    /\ pc = "idle"
    /\ call = NoCall
    /\ err = ""
    /\ orig = board
    /\ applied = board
    /\ cycles = 0
    /\ trace = <<>>

NextAspect == \E enable \in BOOLEAN : direct_apply_3D_variant_aspect(enable)

SpecAspect == InitAspect /\ [][NextAspect]_vars

\* ------------------------------------------------------ VariantOptions.run
\* The filters of fil_base: reset_filters puts every flag back to true.
reset_filters(comps) ==
    [k \in 1..Len(comps) |-> [comps[k] EXCEPT !.fitted = TRUE, !.included = TRUE]]

\* apply_pre_transform: a transform filter rewrites a field, never a flag.
apply_pre_transform(comps, filter) ==
    IF filter = None THEN comps
    ELSE [k \in 1..Len(comps) |->
            IF comps[k].config = filter.from THEN [comps[k] EXCEPT !.config = filter.to]
            ELSE comps[k]]

\* apply_fitted_filter: the components the filter matches are not fitted.
apply_fitted_filter(comps, filter) ==
    IF filter = None THEN comps
    ELSE [k \in 1..Len(comps) |->
            IF comps[k].config = filter.match THEN [comps[k] EXCEPT !.fitted = FALSE]
            ELSE comps[k]]

\* variant.filter: the variant has the last word on both flags.
variant_filter(comps, variant) ==
    [k \in 1..Len(comps) |->
        [comps[k] EXCEPT !.fitted = @ /\ comps[k].ref \notin variant.not_fitted,
                         !.included = @ /\ comps[k].ref \notin variant.excluded]]

\* A slip in run: the flags are reset after the transform and the dnf_filter.
run_order_reset_late ==
    <<"apply_pre_transform", "apply_fitted_filter", "reset_filters", "variant">>

\* The statements of run after the component list is loaded, in their order.
run_order == <<"reset_filters", "apply_pre_transform", "apply_fitted_filter", "variant">>

\* The components of the schematic, with the flags an earlier output left.
SchComponents ==
    {<<[Component("R1", d1, <<>>) EXCEPT !.config = c1],
       [Component("R2", d2, <<>>) EXCEPT !.config = c2]>> :
        d1 \in Decisions \ {"unknown"}, d2 \in {"fitted", "excluded_not_fitted"},
        c1 \in {"", "dnp", "DNF"}, c2 \in {"", "dnp"}}

\* VariantOptions.run up to get_board_comps_data: nothing to do without a
\* filter and a variant, else the components of the schematic are taken.
run ==
    /\ pc = "idle"
    /\ trace = <<>>
    /\ call.kind = "none"
    /\ IF self.dnf_filter = None /\ self.variant = None /\ self.pre_transform = None
       THEN /\ call' = [NoCall EXCEPT !.kind = "run"]
            /\ pc' = "idle"
       ELSE /\ \E comps \in SchComponents : call' = [NoCall EXCEPT !.kind = "run", !.step = 1,
                                                                  !.comps = comps]
            /\ pc' = "run"
    /\ UNCHANGED <<board, self, GS, fs, err, orig, applied, cycles, trace>>

RunStep(name, comps) ==
    /\ pc = "run"
    /\ call.step <= Len(run_order)
    /\ run_order[call.step] = name
    /\ call' = [call EXCEPT !.step = @ + 1, !.comps = comps]
    /\ trace' = Append(trace, name)
    /\ UNCHANGED <<board, self, GS, fs, pc, err, orig, applied, cycles>>

CallResetFilters == RunStep("reset_filters", reset_filters(call.comps))

CallApplyPreTransform ==
    RunStep("apply_pre_transform", apply_pre_transform(call.comps, self.pre_transform))

CallApplyFittedFilter ==
    RunStep("apply_fitted_filter", apply_fitted_filter(call.comps, self.dnf_filter))

\* `if self.variant: comps = self.variant.filter(comps)`
CallVariantFilter ==
    /\ self.variant /= None
    /\ RunStep("variant", variant_filter(call.comps, self.variant))

\* `self._comps = comps`, once the statements before it are done.
RunReturn ==
    /\ pc = "run"
    /\ \/ call.step > Len(run_order)
       \/ call.step = Len(run_order) /\ run_order[call.step] = "variant" /\ self.variant = None
    /\ self' = [self EXCEPT !.comps = call.comps]
    /\ pc' = "idle"
    /\ UNCHANGED <<board, GS, fs, call, err, orig, applied, cycles, trace>>

InitRun ==
    /\ board = <<Footprint3D("R1", "plain", <<Model(AFile)>>),
                 Footprint3D("R2", "plain", <<Model(BFile)>>)>>
    /\ \E d \in {None, [match |-> "DNF"]}, t \in {None, [from |-> "dnp", to |-> "DNF"]},
          v \in {None, [name |-> "v1", tags |-> {"t1"}, not_fitted |-> {"R1"}, excluded |-> {"R2"}]} :
        self = [SelfInit EXCEPT !.dnf_filter = d, !.pre_transform = t, !.variant = v]
    /\ GS = [global_cross_footprints_for_dnp |-> FALSE,
             global_remove_solder_paste_for_dnp |-> FALSE,
             global_remove_adhesive_for_dnp |-> FALSE]
    /\ fs = [files |-> {}, created |-> 0]
    /\ pc = "idle"
    /\ call = NoCall
    /\ err = ""
    /\ orig = board
    /\ applied = board
    /\ cycles = 0
    /\ trace = <<>>

NextRun ==
    \/ run
    \/ CallResetFilters
    \/ CallApplyPreTransform
    \/ CallApplyFittedFilter
    \/ CallVariantFilter
    \/ RunReturn

SpecRun == InitRun /\ [][NextRun]_vars

\* ------------------------------------------- 2D and 3D mutations together
\* filter_pcb_components(board, do_3D=True, do_2D=True) and its undo, for an
\* output without the option hide_excluded and without a variant.
InitUndo ==
    /\ board \in Boards2D
    /\ \E d \in [RefSet -> {"unknown", "fitted", "not_fitted"}] :
        self = [SelfInit EXCEPT !.comps = CompList(d, NoFields, 1)]
    /\ GS \in [global_cross_footprints_for_dnp : BOOLEAN,
               global_remove_solder_paste_for_dnp : BOOLEAN,
               global_remove_adhesive_for_dnp : BOOLEAN]
    /\ fs = [files |-> {}, created |-> 0]
    /\ pc = "idle"
    /\ call = NoCall
    /\ err = ""
    /\ orig = board
    /\ applied = board
    /\ cycles = 0
    /\ trace = <<>>

NextUndo ==
    \/ filter_pcb_components(TRUE, TRUE, {})
    \/ unfilter_pcb_components
    \/ CallCrossModules
    \/ CallRemovePasteAndGlue
    \/ CallApply3DVariantAspect
    \/ CallRemove3DModels
    \/ CallHighlight3DModels
    \/ CallUncrossModules
    \/ CallRestorePasteAndGlue
    \/ CallRestore3DModels
    \/ CallEnable3DVariantAspect
    \/ CallUnhighlight3DModels

SpecUndo == InitUndo /\ [][NextUndo]_vars

\* ------------------------------------------------------------- scaling
\* Floating point numbers: [m, e] is m * 2^e.  A division is rounded to the
\* nearest number with MantissaBits significant bits, ties to even, as the
\* host's doubles are with 53 bits.
MantissaBits == 3

\* Largest paper and board dimension explored.
MaxDim == 6

\* Exponents from -ExpRange to ExpRange are enough for quotients of 1..MaxDim + 1.
ExpRange == 8

Float(n) == [m |-> n, e |-> 0]

\* num/den rounded to the nearest integer, ties to even.
RoundDiv(num, den) ==
    LET q == num \div den
        r == num % den
    IN  IF 2 * r < den THEN q
        ELSE IF 2 * r > den THEN q + 1
        ELSE IF q % 2 = 0 THEN q ELSE q + 1

\* a / b for integers a >= 0 and b > 0.
FDiv(a, b) ==
    IF a = 0 THEN Float(0)
    ELSE LET e == CHOOSE x \in (-ExpRange)..ExpRange :
                    /\ a < b * Pow2(MantissaBits) * Pow2(x + ExpRange)
                    /\ a * Pow2(ExpRange) >= b * Pow2(MantissaBits - 1) * Pow2(x + ExpRange)
             m == IF e >= 0 THEN RoundDiv(a, b * Pow2(e)) ELSE RoundDiv(a * Pow2(-e), b)
         IN  IF m = Pow2(MantissaBits) THEN [m |-> Pow2(MantissaBits - 1), e |-> e + 1]
             ELSE [m |-> m, e |-> e]

\* The value of x as a fraction of integers.
Num(x) == IF x.e >= 0 THEN x.m * Pow2(x.e) ELSE x.m

Den(x) == IF x.e >= 0 THEN 1 ELSE Pow2(-x.e)

FLeq(x, y) == Num(x) * Den(y) <= Num(y) * Den(x)

\* max(x, y): the scale that fills the paper in both dimensions.
FMax(x, y) == IF FLeq(y, x) /\ ~FLeq(x, y) THEN x ELSE y

\* min(x, y)
FMin(x, y) == IF FLeq(y, x) /\ ~FLeq(x, y) THEN y ELSE x

\* set_scaling: the scale given when it is not 0, else the autoscale; the
\* division by an empty bounding box raises.
set_scaling(gs, scaling) ==
    IF scaling.m /= 0 THEN [scale |-> scaling, err |-> ""]
    ELSE IF gs.board_w = 0 \/ gs.board_h = 0 THEN [scale |-> scaling, err |-> "ZeroDivisionError"]
    ELSE [scale |-> FMin(FDiv(gs.paper_w, gs.board_w), FDiv(gs.paper_h, gs.board_h)), err |-> ""]

\* set_scaling called for a board, a paper and a scale.
CallSetScaling ==
    /\ pc = "idle"
    /\ call.kind = "none"
    /\ \E scaling \in {Float(0), Float(2)} :
        LET r == set_scaling(GS, scaling)
        IN  /\ call' = [kind |-> "set_scaling", scaling |-> scaling, scale |-> r.scale]
            /\ err' = r.err
            /\ pc' = IF r.err /= "" THEN "failed" ELSE "done"
    /\ UNCHANGED <<board, self, GS, fs, orig, applied, cycles, trace>>

InitScale ==
    /\ board = <<>>
    /\ self = SelfInit
    /\ GS \in [paper_w : 1..MaxDim, paper_h : 1..MaxDim, board_w : 0..MaxDim, board_h : 0..MaxDim]
    /\ fs = [files |-> {}, created |-> 0]
    /\ pc = "idle"
    /\ call = NoCall
    /\ err = ""
    /\ orig = board
    /\ applied = board
    /\ cycles = 0
    /\ trace = <<>>

NextScale == CallSetScaling

SpecScale == InitScale /\ [][NextScale]_vars

\* ------------------------------------------------------------ Run_DRC.run
\* Return codes of the DRC runner: the exit status of a process, or minus the
\* number of the signal that ended it.
MaxSignal == 3

ReturnCodes == (-MaxSignal)..255

\* The command line of the runner.
DRCCommand(gs) ==
    <<"KiAuto", "run_drc", "-o", "report">>
    \o (IF gs.filter_file /= "" THEN <<"-f", gs.filter_file>> ELSE <<>>)
    \o (IF gs.global_drc_exclusions_workaround THEN <<"-F">> ELSE <<>>)
    \o (IF gs.ignore_unconnected THEN <<"-i">> ELSE <<>>)
    \o <<"pcb_file", "out_dir">>

\* The code as the test "if ret > 127" leaves it.
SignedRet(ret) == IF ret > 127 THEN -(256 - ret) ELSE ret

\* The report that tells no sign: "DRC returned" for the codes above 127 as well.
ReportsErrorsNever(ret) == FALSE

\* The first branch of the report: "DRC errors" under this condition, "DRC returned" otherwise.
ReportsErrors(ret) == ret < 0

\* What is logged for a non-zero code.
DRCReport(ret) ==
    IF ReportsErrors(SignedRet(ret)) THEN [msg |-> "DRC errors", n |-> -SignedRet(ret)]
    ELSE [msg |-> "DRC returned", n |-> SignedRet(ret)]

\* Run_DRC.run: the runner is executed and returns ret; the screencast is
\* removed; a non-zero code is reported and ends the process.
Run_DRC_run ==
    /\ pc = "idle"
    /\ call.kind = "none"
    /\ \E ret \in ReturnCodes :
        /\ call' = [kind |-> "run_drc", cmd |-> DRCCommand(GS), ret |-> ret]
        /\ fs' = [fs EXCEPT !.files = IF GS.video_remove THEN @ \ {"pcbnew_run_drc_screencast.ogv"} ELSE @]
        /\ IF ret /= 0
           THEN /\ trace' = Append(trace, DRCReport(ret))
                /\ err' = "DRC_ERROR"
                /\ pc' = "exit"
           ELSE /\ trace' = trace
                /\ err' = ""
                /\ pc' = "done"
    /\ UNCHANGED <<board, self, GS, orig, applied, cycles>>

InitDRC ==
    /\ board = <<>>
    /\ self = SelfInit
    /\ GS \in [filter_file : {"", "filter"}, global_drc_exclusions_workaround : BOOLEAN,
               ignore_unconnected : BOOLEAN, video_remove : BOOLEAN]
    /\ fs \in [files : {{}, {"pcbnew_run_drc_screencast.ogv"}}, created : {0}]
    /\ pc = "idle"
    /\ call = NoCall
    /\ err = ""
    /\ orig = board
    /\ applied = board
    /\ cycles = 0
    /\ trace = <<>>

NextDRC == Run_DRC_run

SpecDRC == InitDRC /\ [][NextDRC]_vars

\* ------------------------------------------------ BaseOutput.get_dependencies
SchFiles == {<<>>, <<"top.sch">>, <<"top.sch", "sub.sch">>}

\* is_sch in the place of the test: outputs that work on both files included.
DependsOnIsSch(o) == o.sch_related \/ o.both_related

\* The test of the first branch.
DependsOnSchematic(o) == o.sch_related

get_dependencies(o, gs) ==
    IF DependsOnSchematic(o)
    THEN IF gs.sch.loaded THEN gs.sch.files ELSE <<gs.sch_file>>
    ELSE <<gs.pcb_file>>

CallGetDependencies ==
    /\ pc = "idle"
    /\ call.kind = "none"
    /\ call' = [kind |-> "get_dependencies", result |-> get_dependencies(self, GS)]
    /\ pc' = "done"
    /\ UNCHANGED <<board, self, GS, fs, err, orig, applied, cycles, trace>>

InitDeps ==
    /\ board = <<>>
    /\ self \in [sch_related : BOOLEAN, both_related : BOOLEAN, none_related : BOOLEAN]
    /\ GS \in [sch : {[loaded |-> FALSE, files |-> <<>>]} \cup [loaded : {TRUE}, files : SchFiles \ {<<>>}],
               sch_file : {"", "fake", "top.sch"}, pcb_file : {"", "board.kicad_pcb"}]
    /\ fs = [files |-> {}, created |-> 0]
    /\ pc = "idle"
    /\ call = NoCall
    /\ err = ""
    /\ orig = board
    /\ applied = board
    /\ cycles = 0
    /\ trace = <<>>

NextDeps == CallGetDependencies

SpecDeps == InitDeps /\ [][NextDeps]_vars

\* -------------------------------------------------------------- pcb_print
CopperLayers == {"F.Cu", "B.Cu"}

MaskLayers == {"F.Mask", "B.Mask"}

\* The scaling of a page that gives none.
NoScale == [m |-> -1, e |-> 0]

LayerOpt(l) == [layer |-> l, color |-> ""]

Page(scaling, layers, monochrome) ==
    [scaling |-> scaling, layers |-> layers, monochrome |-> monochrome]

\* The `pages` of the configurations explored; <<>> is a missing list.
PageLists ==
    { <<>>,
      <<Page(NoScale, <<LayerOpt("F.Cu")>>, FALSE)>>,
      <<Page(Float(2), <<LayerOpt("F.SilkS"), LayerOpt("F.Cu")>>, TRUE)>>,
      <<Page(Float(0), <<LayerOpt("F.Cu"), LayerOpt("Edge.Cuts")>>, FALSE),
        Page(Float(2), <<LayerOpt("F.Mask")>>, TRUE)>>,
      <<Page(NoScale, <<LayerOpt("F.SilkS")>>, FALSE),
        Page(NoScale, <<LayerOpt("F.Mask"), LayerOpt("F.Cu")>>, TRUE)>> }

Formats == {"PDF", "SVG", "PNG", "EPS", "PS"}

\* format.lower()
Lower(format) ==
    CASE format = "PDF" -> "pdf"
      [] format = "SVG" -> "svg"
      [] format = "PNG" -> "png"
      [] format = "EPS" -> "eps"
      [] format = "PS" -> "ps"

\* File names: the page directory or number, what the file is of, its kind and extension.
FileName(page, base, kind, ext) == [page |-> page, base |-> base, kind |-> kind, ext |-> ext]

File(name, content) == [name |-> name, content |-> content]

Names(files) == {f.name : f \in files}

\* expand_filename with the id of a page, and without one.
PageTarget(n, ext) == FileName(n, "assembly", "page", ext)

DocTarget(ext) == FileName(0, "assembly", "doc", ext)

\* EPS taken for a format of one file.
PerPageFormatNoEPS(format) == format \in {"SVG", "PNG"}

\* The test of get_targets for one file per page.
PerPageFormat(format) == format \in {"SVG", "PNG", "EPS"}

get_targets(s) ==
    IF PerPageFormat(s.format)
    THEN [n \in 1..Len(s.pages) |-> PageTarget(n, Lower(s.format))]
    ELSE <<DocTarget(Lower(s.format))>>

\* No scaling taken from the output: the page is autoscaled.
AutoScaling(parent) == Float(0)

\* The scaling a page takes from the output.
InheritedScaling(parent) == parent.scaling

\* PagesOptions.config
PagesOptions_config(p, parent) ==
    [p EXCEPT !.scaling = IF @ = NoScale THEN InheritedScaling(parent) ELSE @]

\* The colour of the theme for the layers without one.
AssignColors(p) ==
    [p EXCEPT !.layers = [i \in DOMAIN @ |-> IF @[i].color = "" THEN [@[i] EXCEPT !.color = "theme"] ELSE @[i]]]

\* What config finds in the file system: the colour theme, the page layout
\* and the background image.
ConfigEnv == {"ok", "no_theme", "no_layout", "no_background", "bad_background"}

\* PCB_PrintOptions.config: the pages are configured first, then the checks.
config ==
    /\ pc = "unconfigured"
    /\ \E env \in ConfigEnv :
        LET pages == [i \in DOMAIN self.pages |-> AssignColors(PagesOptions_config(self.pages[i], self))]
            bad == \/ self.pages = <<>>
                   \/ env /= "ok"
                   \/ self.frame_plot_mechanism = "plot" /\ GS.ki5
        IN  IF bad
            THEN /\ pc' = "failed"
                 /\ err' = "KiPlotConfigurationError"
                 /\ self' = IF self.pages = <<>> THEN self ELSE [self EXCEPT !.pages = pages]
                 /\ UNCHANGED <<orig, applied>>
            ELSE /\ pc' = "configured"
                 /\ err' = ""
                 /\ self' = [self EXCEPT !.pages = pages]
                 /\ applied' = self.pages
                 /\ orig' = pages
    /\ UNCHANGED <<board, GS, fs, call, cycles, trace>>

Event(page, op, name, scale) == [page |-> page, op |-> op, name |-> name, scale |-> scale]

NoName == FileName(0, "", "", "")

\* check_tool(dep, fatal=True) for a tool that is needed: found or not.
ToolFound(needed) == IF needed THEN BOOLEAN ELSE {TRUE}

\* PCB_PrintOptions.run up to the page loop: lxml, filter_components (no
\* components: it returns at once), check_tools and the set up of generate_output.
pcb_print_run ==
    /\ pc = "configured"
    /\ \E lxml \in BOOLEAN, rsvg \in ToolFound(self.format /= "SVG"),
          gs \in ToolFound(self.format = "PS"), rsvg2 \in ToolFound(self.format = "EPS") :
        IF ~lxml
        THEN /\ pc' = "exit"
             /\ err' = "MissingTool"
             /\ UNCHANGED <<call, trace>>
        ELSE /\ trace' = Append(trace, Event(0, "filter_components", NoName, Float(0)))
             /\ IF rsvg /\ gs /\ rsvg2
                THEN /\ pc' = "page"
                     /\ err' = ""
                     /\ call' = [kind |-> "generate_output", n |-> 1, li |-> 1, filelist |-> <<>>,
                                 pages |-> <<>>, scale |-> Float(1), has_images |-> FALSE]
                ELSE /\ pc' = "exit"
                     /\ err' = "MissingTool"
                     /\ call' = call
    /\ UNCHANGED <<board, self, GS, fs, orig, applied, cycles>>

\* The page of the loop.
CurPage == self.pages[call.n]

\* The head of the page loop: the scale is set and kept in the page, and
\* force_edge_cuts adds its layer to the page.
PageStart ==
    /\ pc = "page"
    /\ call.n <= Len(self.pages)
    /\ LET r == set_scaling(GS, CurPage.scaling)
           edge == [layer |-> "Edge.Cuts", color |-> "theme"]
           layers == IF self.force_edge_cuts /\ ~(\E i \in DOMAIN CurPage.layers : CurPage.layers[i].layer = "Edge.Cuts")
                     THEN Append(CurPage.layers, edge)
                     ELSE CurPage.layers
       IN  /\ self' = [self EXCEPT !.pages[call.n] = [@ EXCEPT !.scaling = r.scale, !.layers = layers]]
           /\ call' = [call EXCEPT !.scale = r.scale, !.filelist = <<>>, !.li = 1]
           /\ pc' = "layers"
    /\ UNCHANGED <<board, GS, fs, err, orig, applied, cycles, trace>>

\* The files of the temporal directory: in the output directory with keep_temporal_files.
TempFiles == IF self.keep_temporal_files THEN fs.out ELSE fs.tmp

WriteTemp(files) ==
    IF self.keep_temporal_files THEN [fs EXCEPT !.out = @ \cup files] ELSE [fs EXCEPT !.tmp = @ \cup files]

\* plot_extra_cu: the kinds of the extra files of a copper layer, in order.
ExtraCu(l) ==
    IF l \in CopperLayers
    THEN (IF self.colored_pads THEN <<"pads">> ELSE <<>>)
         \o (IF self.colored_vias THEN <<"vias_through", "vias_blind_buried", "vias_microvia">> ELSE <<>>)
    ELSE <<>>

\* A PcbDraw file without the elements looked for ends the run.
MaskFailureFatal == "error"

\* What a PcbDraw file without the elements looked for gives: a warning and a return.
MaskFailure == "warning"

\* One turn of the layer loop: the layer, its pads and vias, its solder mask.
\* PcbDraw writes its file beside the layer; the layer file is saved again
\* with the mask only when the PcbDraw file has its defs and its boardContainer.
PlotLayer ==
    /\ pc = "layers"
    /\ call.li <= Len(CurPage.layers)
    /\ LET l == CurPage.layers[call.li].layer
           name == FileName(call.n, l, "layer", "svg")
           pcbdraw_file == FileName(call.n, l, "pcbdraw", "svg")
           extra == [i \in DOMAIN ExtraCu(l) |-> FileName(call.n, l, ExtraCu(l)[i], "svg")]
           extras == {File(extra[i], <<>>) : i \in DOMAIN extra}
           events == <<Event(call.n, "plot", name, call.scale)>>
                     \o [i \in DOMAIN extra |-> Event(call.n, "extra", extra[i], call.scale)]
           mask == self.realistic_solder_mask /\ l \in MaskLayers
       IN  \E pcbdraw \in ToolFound(mask), svg \in (IF mask THEN {"ok", "no_defs", "no_group"} ELSE {"ok"}) :
                IF ~pcbdraw
                THEN /\ pc' = "exit"
                     /\ err' = "MissingTool"
                     /\ fs' = WriteTemp({File(name, <<>>)} \cup extras)
                     /\ trace' = trace \o events
                     /\ call' = [call EXCEPT !.filelist = (@ \o <<name>>) \o extra]
                ELSE IF mask /\ svg /= "ok" /\ MaskFailure /= "warning"
                THEN /\ pc' = "failed"
                     /\ err' = "PcbDrawError"
                     /\ fs' = WriteTemp({File(name, <<>>), File(pcbdraw_file, <<>>)} \cup extras)
                     /\ trace' = trace \o events
                     /\ call' = [call EXCEPT !.filelist = (@ \o <<name>>) \o extra]
                ELSE /\ pc' = IF call.li = Len(CurPage.layers) THEN "frame" ELSE "layers"
                     /\ err' = ""
                     /\ fs' = WriteTemp({File(name, IF mask /\ svg = "ok" THEN <<pcbdraw_file>> ELSE <<>>)}
                                        \cup extras
                                        \cup (IF mask THEN {File(pcbdraw_file, <<>>)} ELSE {}))
                     /\ trace' = (trace \o events)
                                 \o (IF mask
                                     THEN <<Event(call.n, IF svg = "ok" THEN "mask" ELSE "mask_failed",
                                                  name, call.scale)>>
                                     ELSE <<>>)
                     /\ call' = [call EXCEPT !.filelist = (@ \o <<name>>) \o extra, !.li = @ + 1]
    /\ UNCHANGED <<board, self, GS, orig, applied, cycles>>

\* The frame under the layers: its name at the head of the list of files.
AddFrameFirst(filelist, name) == <<name>> \o filelist

\* Where the name of the frame goes in the list of files: at its end.
AddFrame(filelist, name) == Append(filelist, name)

\* The frame: plot_frame_gui, plot_frame_api or plot_frame_internal.
PlotFrame ==
    /\ pc = "frame"
    /\ LET name == FileName(call.n, "frame", "frame", "svg")
           mech == self.frame_plot_mechanism
           ok == /\ fs' = WriteTemp({File(name, <<>>)})
                 /\ pc' = "merge"
                 /\ err' = ""
                 /\ trace' = Append(trace, Event(call.n, "frame", name, Float(1)))
       IN  IF ~self.plot_sheet_reference
           THEN /\ pc' = "merge"
                /\ UNCHANGED <<fs, err, trace, call>>
           ELSE \E kiauto \in ToolFound(mech = "gui"), ret \in (IF mech = "gui" THEN {0, 1} ELSE {0}),
                   wks \in (IF mech = "internal" THEN {"ok", "images", "error"} ELSE {"ok"}) :
                    IF ~kiauto
                    THEN /\ pc' = "exit"
                         /\ err' = "MissingTool"
                         /\ UNCHANGED <<fs, trace, call>>
                    ELSE IF ret /= 0
                    THEN /\ pc' = "exit"
                         /\ err' = "PDF_PCB_PRINT"
                         /\ UNCHANGED <<fs, trace, call>>
                    ELSE IF wks = "error"
                    THEN /\ pc' = "failed"
                         /\ err' = "KiPlotConfigurationError"
                         /\ UNCHANGED <<fs, trace>>
                         /\ call' = [call EXCEPT !.scale = Float(1)]
                    ELSE /\ ok
                         /\ call' = [call EXCEPT !.filelist = AddFrame(@, name),
                                                 !.scale = IF mech = "gui" THEN @ ELSE Float(1),
                                                 !.has_images = IF mech = "internal" THEN wks = "images" ELSE @]
    /\ UNCHANGED <<board, self, GS, orig, applied, cycles>>

\* merge_svg and the conversion of the page to PNG or EPS.
MergePage ==
    /\ pc = "merge"
    /\ LET ext == Lower(self.format)
           assembly == IF self.format = "SVG" THEN PageTarget(call.n, ext)
                       ELSE FileName(call.n, "board", "page", "svg")
           merged == File(assembly, call.filelist)
           missing == \E i \in DOMAIN call.filelist : call.filelist[i] \notin Names(TempFiles)
           images == /\ self.plot_sheet_reference
                     /\ self.frame_plot_mechanism = "internal"
                     /\ call.has_images
           last == call.n = Len(self.pages)
       IN  IF missing \/ call.filelist = <<>>
           THEN /\ pc' = "failed"
                /\ err' = IF missing THEN "FileNotFoundError" ELSE "UnboundLocalError"
                /\ UNCHANGED <<fs, trace, call>>
           ELSE \E convert \in ToolFound(images /\ CurPage.monochrome) :
                    IF ~convert
                    THEN /\ pc' = "exit"
                         /\ err' = "MissingTool"
                         /\ UNCHANGED <<fs, trace, call>>
                    ELSE /\ pc' = IF last THEN "join" ELSE "page"
                         /\ err' = ""
                         /\ call' = [call EXCEPT !.pages = Append(@, assembly), !.n = @ + 1]
                         /\ IF self.format = "SVG"
                            THEN /\ fs' = [fs EXCEPT !.out = @ \cup {merged}]
                                 /\ trace' = Append(trace, Event(call.n, "merge", assembly, Float(0)))
                            ELSE IF self.format \in {"PNG", "EPS"}
                            THEN /\ fs' = [WriteTemp({merged}) EXCEPT
                                            !.out = @ \cup {File(PageTarget(call.n, ext), <<assembly>>)}]
                                 /\ trace' = trace \o <<Event(call.n, "merge", assembly, Float(0)),
                                                        Event(call.n, "convert", PageTarget(call.n, ext), Float(0))>>
                            ELSE /\ fs' = WriteTemp({merged})
                                 /\ trace' = Append(trace, Event(call.n, "merge", assembly, Float(0)))
    /\ UNCHANGED <<board, self, GS, orig, applied, cycles>>

\* After the loop: the pages are joined for PDF and PS, the temporal files
\* are removed, and unfilter_components returns at once.
JoinPages ==
    /\ pc = "join"
    /\ LET ext == Lower(self.format)
           pdfs == [i \in DOMAIN call.pages |-> [call.pages[i] EXCEPT !.ext = "pdf"]]
           pdf_files == {File(pdfs[i], <<call.pages[i]>>) : i \in DOMAIN pdfs}
           ps_file == FileName(Len(self.pages), "board", "doc", "ps")
           temps == IF self.format = "PDF" THEN pdf_files
                    ELSE IF self.format = "PS" THEN pdf_files \cup {File(ps_file, pdfs)}
                    ELSE {}
           output == IF self.format \in {"PDF", "PS"} THEN {File(DocTarget(ext), pdfs)} ELSE {}
           written == [WriteTemp(temps) EXCEPT !.out = @ \cup output]
           converts == IF self.format \in {"PDF", "PS"}
                       THEN [i \in DOMAIN pdfs |-> Event(i, "convert", pdfs[i], Float(0))]
                            \o <<Event(0, "join", DocTarget(ext), Float(0))>>
                       ELSE <<>>
       IN  /\ fs' = IF self.keep_temporal_files THEN written ELSE [written EXCEPT !.tmp = {}]
           /\ trace' = (trace \o converts) \o <<Event(0, "unfilter_components", NoName, Float(0))>>
    /\ pc' = "done"
    /\ UNCHANGED <<board, self, GS, err, call, orig, applied, cycles>>

InitPrint ==
    /\ board = <<>>
    /\ self \in [format : Formats, scaling : {Float(1), Float(0)}, pages : PageLists,
                 force_edge_cuts : BOOLEAN, realistic_solder_mask : BOOLEAN,
                 keep_temporal_files : BOOLEAN, plot_sheet_reference : BOOLEAN,
                 frame_plot_mechanism : {"internal", "gui", "plot"},
                 colored_pads : BOOLEAN, colored_vias : BOOLEAN, comps : {<<>>}]
    /\ self.colored_pads = self.colored_vias
    /\ self.plot_sheet_reference \/ self.frame_plot_mechanism = "internal"
    /\ GS \in [ki5 : BOOLEAN, paper_w : {4}, paper_h : {3}, board_w : {3}, board_h : {1}]
    /\ fs = [out |-> {}, tmp |-> {}]
    /\ pc = "unconfigured"
    /\ call = NoCall
    /\ err = ""
    /\ orig = <<>>
    /\ applied = <<>>
    /\ cycles = 0
    /\ trace = <<>>

NextPrint == config \/ pcb_print_run \/ PageStart \/ PlotLayer \/ PlotFrame \/ MergePage \/ JoinPages

SpecPrint == InitPrint /\ [][NextPrint]_vars

\* ----------------------------------------------------- BaseOutput.get_targets
\* The names the get_targets of the options reports.
TargetNames == {<<>>, <<"a">>, <<"b">>, <<"a", "b">>, <<"b", "a">>, <<"a", "a">>, <<"c">>, <<"c", "a">>,
     <<"a", "b", "c">>}

\* options.get_targets(out_dir)
OptionsTargets(o, out_dir) == [i \in DOMAIN o.options.names |-> [dir |-> out_dir, name |-> o.options.names[i]]]

\* Any options object is taken for one with get_targets.
HasOptions(o) == o.has_options

\* hasattr(self, "options") and hasattr(self.options, "get_targets")
HasGetTargets(o) == o.has_options /\ o.options.has_get_targets

\* BaseOutput.get_targets; calling a method the options do not have raises.
base_get_targets(o, out_dir) ==
    IF ~HasGetTargets(o)
    THEN [result |-> <<>>, log |-> <<"doesn't implement get_targets(), please report it">>, err |-> ""]
    ELSE IF o.options.has_get_targets
    THEN [result |-> OptionsTargets(o, out_dir), log |-> <<>>, err |-> ""]
    ELSE [result |-> <<>>, log |-> <<>>, err |-> "AttributeError"]

CallGetTargets ==
    /\ pc = "idle"
    /\ call.kind = "none"
    /\ \E out_dir \in {"", "out"} :
        LET r == base_get_targets(self, out_dir)
        IN  /\ call' = [kind |-> "get_targets", out_dir |-> out_dir, result |-> r.result]
            /\ trace' = r.log
            /\ err' = r.err
            /\ pc' = IF r.err /= "" THEN "failed" ELSE "done"
    /\ UNCHANGED <<board, self, GS, fs, orig, applied, cycles>>

InitTargets ==
    /\ board = <<>>
    /\ self \in [has_options : BOOLEAN, options : [has_get_targets : BOOLEAN, names : TargetNames]]
    /\ GS = None
    /\ fs = [files |-> {}, created |-> 0]
    /\ pc = "idle"
    /\ call = NoCall
    /\ err = ""
    /\ orig = board
    /\ applied = board
    /\ cycles = 0
    /\ trace = <<>>

NextTargets == CallGetTargets

SpecTargets == InitTargets /\ [][NextTargets]_vars

\* ------------------------------------------- get_fitted_refs, get_not_fitted_refs
\* Longest component list explored.
MaxComps == 3

FlaggedComps == [ref : {"R1", "R2"}, fitted : BOOLEAN, included : BOOLEAN]

RECURSIVE CompLists(_)
CompLists(n) ==
    IF n = 0 THEN {<<>>}
    ELSE CompLists(n - 1) \cup {Append(l, c) : l \in {x \in CompLists(n - 1) : Len(x) = n - 1}, c \in FlaggedComps}

RefsOf(comps) == [i \in DOMAIN comps |-> comps[i].ref]

\* `not c.fitted and not c.included`: only the components that are neither.
NeitherFittedNorIncluded(c) == ~c.fitted /\ ~c.included

\* `not c.fitted or not c.included`
NotFittedOrNotIncluded(c) == ~c.fitted \/ ~c.included

get_fitted_refs(comps) ==
    IF NoComps(comps) THEN <<>>
    ELSE RefsOf(SelectSeq(comps, LAMBDA c : c.fitted /\ c.included))

get_not_fitted_refs(comps) ==
    IF NoComps(comps) THEN <<>>
    ELSE RefsOf(SelectSeq(comps, NotFittedOrNotIncluded))

CallGetFittedRefs ==
    /\ pc = "idle"
    /\ call.kind \in {"none", "refs"}
    /\ call.kind = "refs" => ~call.fitted_done
    /\ call' = [kind |-> "refs", fitted_done |-> TRUE, fitted |-> get_fitted_refs(self.comps),
                not_fitted_done |-> IF call.kind = "refs" THEN call.not_fitted_done ELSE FALSE,
                not_fitted |-> IF call.kind = "refs" THEN call.not_fitted ELSE <<>>]
    /\ UNCHANGED <<board, self, GS, fs, pc, err, orig, applied, cycles, trace>>

CallGetNotFittedRefs ==
    /\ pc = "idle"
    /\ call.kind \in {"none", "refs"}
    /\ call.kind = "refs" => ~call.not_fitted_done
    /\ call' = [kind |-> "refs", not_fitted_done |-> TRUE, not_fitted |-> get_not_fitted_refs(self.comps),
                fitted_done |-> IF call.kind = "refs" THEN call.fitted_done ELSE FALSE,
                fitted |-> IF call.kind = "refs" THEN call.fitted ELSE <<>>]
    /\ UNCHANGED <<board, self, GS, fs, pc, err, orig, applied, cycles, trace>>

InitRefs ==
    /\ board = <<>>
    /\ self \in [comps : CompLists(MaxComps)]
    /\ GS = None
    /\ fs = [files |-> {}, created |-> 0]
    /\ pc = "idle"
    /\ call = NoCall
    /\ err = ""
    /\ orig = board
    /\ applied = board
    /\ cycles = 0
    /\ trace = <<>>

NextRefs == CallGetFittedRefs \/ CallGetNotFittedRefs

SpecRefs == InitRefs /\ [][NextRefs]_vars

\* ------------------------------------------------------- BaseOutput.config
\* Deepest nesting of config calls explored; one more raises RecursionError.
MaxDepth == 4

\* The registered outputs and the keys of their `options` sections.
OutNames == {"a", "b", "c"}

Keys == {"k1", "k2"}

\* The value an output gives to the keys of its own options: a value names
\* the output that wrote it, 0 is a key that is absent.
OwnValue(o) == IF o = "a" THEN 1 ELSE IF o = "b" THEN 2 ELSE 3

\* The dict object of the options of the tree of an output, before any config.
OwnDict(o) == IF o = "a" THEN 1 ELSE IF o = "b" THEN 2 ELSE 3

EmptyDict == [k \in Keys |-> 0]

\* `if options:`, a dict with at least one key.
NonEmpty(d) == \E k \in Keys : d[k] /= 0

\* RegOutput.get_output: the registered output of that name, or none.
get_output(name) == IF name \in OutNames THEN name ELSE ""

\* A merge where the values of the base win on the shared keys.
updateKeepsBase(d, e) == [k \in Keys |-> IF d[k] /= 0 THEN d[k] ELSE e[k]]

\* dict.update: the entries of e are written over d.
update(d, e) == [k \in Keys |-> IF e[k] /= 0 THEN e[k] ELSE d[k]]

\* copy.deepcopy: a new object, placed after the objects of the heap.
deepcopy(heap, d) == Len(heap) + 1

Frame(o, step) == [out |-> o, step |-> step]

Top == call[Len(call)]

SetTop(step) == [call EXCEPT ![Len(call)].step = step]

\* A KiPlotConfigurationError, or the RecursionError of the interpreter, leaves
\* every config call in progress.
Raise(e) ==
    /\ pc' = "failed"
    /\ err' = e
    /\ UNCHANGED <<board, self, GS, fs, call, orig, applied, cycles, trace>>

\* A config call on one of the outputs, as made for every output to run.
CallConfig ==
    /\ pc = "idle"
    /\ call = <<>>
    /\ \E o \in OutNames :
        /\ self' = o
        /\ call' = <<Frame(o, "start")>>
    /\ pc' = "config"
    /\ UNCHANGED <<board, GS, fs, err, orig, applied, cycles, trace>>

\* config up to the call that configures the extended output; every output
\* here was read from a configuration and has a tree.
ConfigStart ==
    /\ pc = "config"
    /\ Top.step = "start"
    /\ LET me  == GS.outputs[Top.out]
           out == get_output(me.extends)
       IN  IF ~(~me.configured /\ me.extends /= "")
           THEN /\ call' = SetTop("super")
                /\ UNCHANGED <<board, self, GS, fs, pc, err, orig, applied, cycles, trace>>
           ELSE IF out = ""
           THEN Raise("UnknownExtends")
           ELSE IF GS.outputs[out].type /= me.type
           THEN Raise("AnotherType")
           ELSE IF ~GS.outputs[out].configured
           THEN IF Len(call) < MaxDepth
                THEN /\ call' = Append(SetTop("extend"), Frame(out, "start"))
                     /\ UNCHANGED <<board, self, GS, fs, pc, err, orig, applied, cycles, trace>>
                ELSE Raise("RecursionError")
           ELSE /\ call' = SetTop("extend")
                /\ UNCHANGED <<board, self, GS, fs, pc, err, orig, applied, cycles, trace>>

\* The options of the extended output copied under the options of this one.
ConfigExtend ==
    /\ pc = "config"
    /\ Top.step = "extend"
    /\ LET me      == GS.outputs[Top.out]
           out     == GS.outputs[get_output(me.extends)]
           options == GS.heap[out.tree]
       IN  IF NonEmpty(options)
           THEN LET old_options == GS.heap[me.tree]
                    new    == deepcopy(GS.heap, out.tree)
                    copied == IF new > Len(GS.heap) THEN Append(GS.heap, options) ELSE GS.heap
                IN  GS' = [GS EXCEPT !.heap = [copied EXCEPT ![new] = update(copied[new], old_options)],
                                     !.outputs[Top.out].tree = new]
           ELSE UNCHANGED GS
    /\ call' = SetTop("super")
    /\ UNCHANGED <<board, self, fs, pc, err, orig, applied, cycles, trace>>

\* Optionable.config, which reads the tree once, and the rest of config; the
\* call returns to the config that made it.
ConfigSuper ==
    /\ pc = "config"
    /\ Top.step = "super"
    /\ LET me    == GS.outputs[Top.out]
           first == ~me.configured
       IN  /\ GS' = IF first
                    THEN [GS EXCEPT !.outputs[Top.out].configured = TRUE,
                                    !.outputs[Top.out].options = GS.heap[me.tree]]
                    ELSE GS
           /\ trace' = IF first THEN Append(trace, Top.out) ELSE trace
    /\ \E to_dis \in {"", "a", "zz"} :
        IF to_dis /= "" /\ get_output(to_dis) = ""
        THEN /\ pc' = "failed"
             /\ err' = "UnknownDisable"
             /\ call' = call
        ELSE /\ call' = SubSeq(call, 1, Len(call) - 1)
             /\ pc' = IF Len(call) = 1 THEN "idle" ELSE "config"
             /\ err' = err
    /\ UNCHANGED <<board, self, fs, orig, applied, cycles>>

InitExtends ==
    /\ board = <<>>
    /\ self = ""
    /\ \E types \in [OutNames -> {"t1", "t2"}], exts \in [OutNames -> OutNames \cup {"", "zz"}], has \in [OutNames -> SUBSET Keys] :
        /\ types["a"] = "t1"
        /\ GS = [outputs |-> [o \in OutNames |->
                                [type |-> types[o], extends |-> exts[o], tree |-> OwnDict(o),
                                 configured |-> FALSE, options |-> EmptyDict]],
                 heap |-> [i \in 1..3 |-> LET o == CHOOSE n \in OutNames : OwnDict(n) = i
                                          IN  [k \in Keys |-> IF k \in has[o] THEN OwnValue(o) ELSE 0]]]
    /\ fs = [files |-> {}, created |-> 0]
    /\ pc = "idle"
    /\ call = <<>>
    /\ err = ""
    /\ orig = GS
    /\ applied = <<>>
    /\ cycles = 0
    /\ trace = <<>>

NextExtends == CallConfig \/ ConfigStart \/ ConfigExtend \/ ConfigSuper

SpecExtends == InitExtends /\ [][NextExtends]_vars

\* ------------------------------------------------------- the whole program
Init == Init2D \/ Init3D \/ InitAspect \/ InitRun \/ InitUndo \/ InitScale \/ InitDRC \/ InitDeps \/ InitPrint \/ InitTargets \/ InitRefs \/ InitExtends

Next == Next2D \/ Next3D \/ NextAspect \/ NextRun \/ NextUndo \/ NextScale \/ NextDRC \/ NextDeps \/ NextPrint \/ NextTargets \/ NextRefs \/ NextExtends

Spec == Init /\ [][Next]_vars

\* =============================================================== claims
FabLayers == {"F.Fab", "B.Fab"}

AdhesLayers == {"F.Adhes", "B.Adhes"}

PasteLayers == {"F.Paste", "B.Paste"}

\* The indexes of the graphical items of footprint m that are in layer l.
OnLayer(m, l) == {k \in 1..Len(m.gi) : m.gi[k].layer = l}

\* C2: after unfilter_components / unfilter_pcb_components(do_2D) has returned,
\* the board is the board the filter call was given: the same graphical items
\* in the same layers and the same layer set for every pad, for every decision
\* set, every combination of the options and after every cycle.
C2_RoundTrip2D == pc = "idle" => board = orig

\* Reached: a second cycle has been undone, with every option on and a board
\* the filter call had changed.
C2_Witness ==
    /\ pc = "idle"
    /\ cycles >= 2
    /\ applied /= orig
    /\ board = orig
    /\ GS.global_cross_footprints_for_dnp
    /\ GS.global_remove_solder_paste_for_dnp
    /\ GS.global_remove_adhesive_for_dnp
    /\ self.hide_excluded

\* C10: R1 fitted, R2 not fitted, C1 excluded, every option on and
\* hide_excluded set.  Once filter_components has returned R1 is as it was, no
\* pad of R2 is on a paste layer, no graphical item of R2 is on an adhesive
\* layer, R2 has two new crossing segments in each Fab layer where it has
\* graphics and none elsewhere, and C1 has nothing on the Fab layers, its pads
\* and the number of its graphical items as they were.  Once
\* unfilter_components has returned the board is the original one.
C10_Scenario ==
    /\ self.comps = <<Component("R1", "fitted", <<>>), Component("R2", "not_fitted", <<>>),
                      Component("C1", "excluded_not_fitted", <<>>)>>
    /\ GS.global_cross_footprints_for_dnp
    /\ GS.global_remove_solder_paste_for_dnp
    /\ GS.global_remove_adhesive_for_dnp
    /\ self.hide_excluded
    /\ call.kind = "print"

\* The graphical items of m that o does not have, in layer l.
NewItems(m, o, l) ==
    {k \in OnLayer(m, l) : \A j \in 1..Len(o.gi) : o.gi[j].id /= m.gi[k].id}

IsCross(m, ks) ==
    /\ Cardinality(ks) = 2
    /\ \E a, b \in ks :
        /\ a /= b
        /\ m.gi[a].cls = "MGRAPHIC" /\ m.gi[b].cls = "MGRAPHIC"
        /\ m.gi[a].x1 = m.gi[b].x1 /\ m.gi[a].x2 = m.gi[b].x2
        /\ m.gi[a].y1 = m.gi[b].y2 /\ m.gi[a].y2 = m.gi[b].y1

C10_Footprint(m, o) ==
    /\ m.ref = "R1" => m = o
    /\ m.ref = "R2" =>
        /\ \A k \in 1..Len(m.pads) : m.pads[k] \cap PasteLayers = {}
        /\ \A l \in AdhesLayers : OnLayer(m, l) = {}
        /\ \A l \in FabLayers :
            IF \E j \in OnLayer(o, l) : o.gi[j].cls = "MGRAPHIC"
            THEN IsCross(m, NewItems(m, o, l))
            ELSE NewItems(m, o, l) = {}
    /\ m.ref = "C1" =>
        /\ \A l \in FabLayers : OnLayer(m, l) = {}
        /\ m.pads = o.pads
        /\ Len(m.gi) = Len(o.gi)

C10_Scenario3 ==
    C10_Scenario =>
        /\ pc = "filtered" => \A i \in 1..Len(board) : C10_Footprint(board[i], orig[i])
        /\ pc = "idle" => board = orig

\* Reached: the scenario on a board where R2 has paste, glue and Fab graphics
\* and C1 has Fab graphics, filtered and restored.
C10_Witness ==
    /\ C10_Scenario
    /\ pc = "idle"
    /\ call.undo
    /\ board = orig
    /\ \A i \in 1..Len(applied) : C10_Footprint(applied[i], orig[i])
    /\ \E i \in 1..Len(applied) :
        /\ applied[i].ref = "R2"
        /\ orig[i].pads /= applied[i].pads
        /\ OnLayer(orig[i], "F.Adhes") /= {}
        /\ IsCross(applied[i], NewItems(applied[i], orig[i], "F.Fab"))
    /\ \E i \in 1..Len(applied) :
        /\ applied[i].ref = "C1"
        /\ OnLayer(orig[i], "B.Fab") /= {}

\* --------------------------------------------------------------------- C1
IsPrefix(p, q) == Len(p) <= Len(q) /\ \A k \in 1..Len(p) : p[k] = q[k]

\* VariantOptions.run has returned with a component list.
RunDone == pc = "idle" /\ call.kind = "run" /\ call.step > 0

\* C1 as stated: the calls of run are made in the order pre_transform, reset
\* of the flags, dnf_filter, variant.
C1_ResetAfterPreTransform ==
    IsPrefix(trace, <<"apply_pre_transform", "reset_filters", "apply_fitted_filter", "variant">>)

\* C1 as amended: the calls of run are made in the order reset of the flags,
\* pre_transform, dnf_filter, variant (the variant only when one is configured),
\* and the list run leaves has the flags the dnf_filter and the variant give to
\* the transformed fields, starting from (true, true).
C1_ResetFirst ==
    /\ IsPrefix(trace, <<"reset_filters", "apply_pre_transform", "apply_fitted_filter", "variant">>)
    /\ RunDone =>
        /\ trace = IF self.variant /= None
                   THEN <<"reset_filters", "apply_pre_transform", "apply_fitted_filter", "variant">>
                   ELSE <<"reset_filters", "apply_pre_transform", "apply_fitted_filter">>
        /\ \A k \in 1..Len(self.comps) :
            LET c == self.comps[k]
            IN  /\ self.pre_transform /= None => c.config /= "dnp"
                /\ c.fitted = (/\ ~(self.dnf_filter /= None /\ c.config = "DNF")
                               /\ ~(self.variant /= None /\ c.ref \in self.variant.not_fitted))
                /\ c.included = ~(self.variant /= None /\ c.ref \in self.variant.excluded)

\* Reached: a run with a transform, a dnf_filter and a variant has returned a
\* list with a component the dnf_filter matched only after the transform.
C1_Witness ==
    /\ RunDone
    /\ Len(trace) = 4
    /\ self.pre_transform /= None
    /\ self.dnf_filter /= None
    /\ \E k \in 1..Len(self.comps) :
        /\ self.comps[k].config = "DNF"
        /\ ~self.comps[k].fitted
        /\ self.comps[k].ref \notin self.variant.not_fitted

\* --------------------------------------------------------------------- C3
\* C3: once unfilter_pcb_components(do_3D) has ended, every footprint has the
\* sequence of 3D models, with the file names, it had when
\* filter_pcb_components(do_3D, highlight) was called.
C3_RoundTrip3D ==
    (call.kind = "pcb" /\ call.do_3D /\ call.undo /\ pc \in {"idle", "failed"}) =>
        \A i \in 1..Len(board) : board[i].models = orig[i].models

\* --------------------------------------------------------------------- C4
EndsWith(str, t) == Len(str) >= Len(t) /\ SubSeq(str, Len(str) - Len(t) + 1, Len(str)) = t

ModelIndexes(b) == {<<i, k>> : i \in 1..Len(b), k \in 1..2} \cap
                   {ik \in (1..Len(b)) \X (1..2) : ik[2] <= Len(b[ik[1]].models)}

\* C4: after any sequence of direct calls of apply_3D_variant_aspect no file
\* name ends with the disable marker twice, and an enable pass leaves a file
\* name without the marker as it is.
C4_NoAccumulation ==
    /\ \A ik \in ModelIndexes(board) :
        ~EndsWith(board[ik[1]].models[ik[2]].file, DISABLE_3D_MODEL_TEXT \o DISABLE_3D_MODEL_TEXT)
    /\ (call.kind = "enable" /\ pc = "idle") =>
        \A ik \in ModelIndexes(orig) :
            ~EndsWith(orig[ik[1]].models[ik[2]].file, DISABLE_3D_MODEL_TEXT) =>
                board[ik[1]].models[ik[2]].file = orig[ik[1]].models[ik[2]].file

\* ------------------------------------------------------------ C5 and C6
IsDefaultRule(gi) == gi.cls = "MTEXT" /\ gi.text.kind = "generic" /\ gi.text.var = "_default_"

\* An explicit rule of the footprint that is for the current variant.
IsExplicitMatch(gi, variant) ==
    /\ gi.cls = "MTEXT"
    /\ \/ gi.text.kind = "generic" /\ gi.text.var /= "_default_" /\ gi.text.var = VariantName(variant)
       \/ gi.text.kind = "specific" /\ variant /= None /\ gi.text.var \in variant.tags

DefaultRules(m) == {k \in 1..Len(m.gi) : IsDefaultRule(m.gi[k])}

ExplicitRules(m, variant) == {k \in 1..Len(m.gi) : IsExplicitMatch(m.gi[k], variant)}

FirstOf(ks) == CHOOSE k \in ks : \A j \in ks : k <= j

RuleSlots(m, k) == SlotNumbers(SlotsOf(m.gi[k].text))

\* The models with the marker appended to those whose 1-based index is not in slots.
Masked(models, slots) ==
    [k \in 1..Len(models) |->
        IF k \in slots THEN models[k]
        ELSE [models[k] EXCEPT !.file = @ \o DISABLE_3D_MODEL_TEXT]]

\* C5: after a disable pass, a footprint with a `_default_` rule has exactly
\* the models outside the slot list of that rule disabled when no explicit rule
\* is for the current variant, and those outside the slot list of the explicit
\* rule when one is.
C5_DefaultFallback ==
    (pc = "idle" /\ trace = <<"disable">>) =>
        \A i \in 1..Len(board) :
            LET m        == orig[i]
                defaults == DefaultRules(m)
                explicit == ExplicitRules(m, self.variant)
            IN  defaults /= {} =>
                    board[i].models =
                        Masked(m.models, IF explicit /= {} THEN RuleSlots(m, FirstOf(explicit))
                                         ELSE RuleSlots(m, FirstOf(defaults)))

\* C6, the disable pass: a footprint with an explicit rule for the current
\* variant has the marker appended to exactly the models whose 1-based index is
\* not in the slot list of the rule (all of them for an empty list), the number
\* and the order of the models unchanged.
C6_DisableMasks ==
    (pc = "idle" /\ call.kind = "disable") =>
        \A i \in 1..Len(board) :
            LET explicit == ExplicitRules(orig[i], self.variant)
            IN  explicit /= {} =>
                    /\ Len(board[i].models) = Len(orig[i].models)
                    /\ \A k \in 1..Len(orig[i].models) :
                        /\ board[i].models[k].hl = orig[i].models[k].hl
                        /\ board[i].models[k].file =
                            IF k \in RuleSlots(orig[i], FirstOf(explicit))
                            THEN orig[i].models[k].file
                            ELSE orig[i].models[k].file \o DISABLE_3D_MODEL_TEXT

\* C6, the enable pass right after the disable pass: every model of such a
\* footprint is back to what it was before the disable pass (orig, at the
\* start of the step, is the board the disable pass was given).
C6_EnableStep ==
    (pc = "idle" /\ call.kind = "disable" /\ pc' = "idle" /\ call'.kind = "enable") =>
        \A i \in 1..Len(board) :
            ExplicitRules(orig[i], self.variant) /= {} =>
                board'[i].models = orig[i].models

\* C6: both passes.
C6_SlotMasking == [](C6_DisableMasks) /\ [][C6_EnableStep]_vars

\* Reached: disable then enable on a footprint with two models and an explicit
\* rule for the variant that keeps slot 1: the enable pass was given the second
\* model with the marker and has taken it off.
C6_Witness ==
    /\ pc = "idle"
    /\ trace = <<"disable", "enable">>
    /\ ExplicitRules(board[1], self.variant) /= {}
    /\ Len(board[1].models) = 2
    /\ orig[1].models[1] = board[1].models[1]
    /\ orig[1].models[2].file = board[1].models[2].file \o DISABLE_3D_MODEL_TEXT

\* --------------------------------------------------------------------- C7
\* The footprints remove_3D_models hands to replace_3D_models: the component
\* list has the reference, the component is not (included and not fitted) and
\* its replacement field has a value.
Replaced(b) ==
    {i \in 1..Len(b) :
        /\ CurHash /= None
        /\ HashGet(CurHash, b[i].ref) /= None
        /\ ~IsNotFitted(HashGet(CurHash, b[i].ref))
        /\ get_field_value(HashGet(CurHash, b[i].ref)) /= <<>>}

FieldOf(b, i) == get_field_value(HashGet(CurHash, b[i].ref))

\* remove_3D_models has just ended, with or without an exception (an
\* AttributeError is the end of apply_3D_variant_aspect, before it).
AfterRemove3D ==
    /\ call.kind = "pcb" /\ call.do_3D /\ ~call.undo
    /\ pc \in {"hl", "failed"}
    /\ err /= "AttributeError"

\* C7 as stated: remove_3D_models does not end normally when a footprint it
\* replaces has a number of models that is not the number of names of the field.
C7_AnyCount ==
    (AfterRemove3D /\ pc = "hl") =>
        \A i \in Replaced(orig) : Len(orig[i].models) = Len(Split(FieldOf(orig, i)))

\* C7 as amended: the counts are compared for footprints with more than one
\* model only.  remove_3D_models ends with KiPlotConfigurationError exactly
\* when a footprint it replaces has more than one model and a number of names
\* that is not the number of models; a footprint with one model takes the
\* whole value as its file name, a footprint with no model stays empty.
C7_MoreThanOne ==
    AfterRemove3D =>
        LET bad == {i \in Replaced(orig) :
                        /\ Len(orig[i].models) > 1
                        /\ Len(orig[i].models) /= Len(Split(FieldOf(orig, i)))}
        IN  /\ (err = "KiPlotConfigurationError") = (bad /= {})
            /\ pc = "hl" =>
                \A i \in Replaced(orig) :
                    Len(orig[i].models) <= 1 =>
                        board[i].models = [k \in 1..Len(orig[i].models) |->
                                              [file |-> FieldOf(orig, i), hl |-> FALSE]]

\* Reached: two models and one name end the run with the error.
C7_Witness ==
    /\ AfterRemove3D
    /\ err = "KiPlotConfigurationError"
    /\ \E i \in Replaced(orig) :
        Len(orig[i].models) = 2 /\ Len(Split(FieldOf(orig, i))) = 1

\* --------------------------------------------------------------------- C8
HighlightModels(m) == {k \in 1..Len(m.models) : m.models[k].hl}

\* C8, highlight_3D_models: one highlight model, with the name of the asset
\* file, goes to the end of the list of every footprint of the highlight set
\* and the other footprints are left alone; the file is created when there is
\* none and the set is not empty, and kept otherwise.
C8_HighlightStep ==
    (pc = "hl" /\ pc' /= "hl") =>
        /\ \A i \in 1..Len(board) :
            board'[i].models =
                IF board[i].ref \in call.highlight
                THEN Append(board[i].models, [file |-> self'.highlight_3D_file, hl |-> TRUE])
                ELSE board[i].models
        /\ IF call.highlight /= {} /\ self.highlight_3D_file = <<>>
           THEN /\ fs'.created = fs.created + 1
                /\ self'.highlight_3D_file \notin fs.files
                /\ fs'.files = fs.files \cup {self'.highlight_3D_file}
           ELSE fs' = fs /\ self'.highlight_3D_file = self.highlight_3D_file

\* C8, unhighlight_3D_models: it does not fail, the last model of every
\* footprint of the highlight set is removed and it is the highlight model,
\* the other footprints are left alone.
C8_UnhighlightStep ==
    (pc = "unhl" /\ pc' /= "unhl") =>
        /\ pc' = "idle"
        /\ \A i \in 1..Len(board) :
            IF board[i].ref \in call.highlight
            THEN /\ board[i].models /= <<>>
                 /\ board[i].models[Len(board[i].models)].hl
                 /\ board'[i].models = SubSeq(board[i].models, 1, Len(board[i].models) - 1)
            ELSE board'[i].models = board[i].models

\* C8, the asset file: at most one is on disk, it is the one the options hold,
\* and between two calls no footprint holds a highlight model.
C8_OneFile ==
    /\ Cardinality(fs.files) <= 1
    /\ fs.files = IF self.highlight_3D_file = <<>> THEN {} ELSE {self.highlight_3D_file}
    /\ pc = "idle" => \A i \in 1..Len(board) : HighlightModels(board[i]) = {}
    /\ (pc = "filtered" /\ ~NoComps(self.comps)) =>
        \A i \in 1..Len(board) :
            HighlightModels(board[i]) =
                IF board[i].ref \in call.highlight THEN {Len(board[i].models)} ELSE {}

\* C8: the three parts.
C8_Highlight == [](C8_OneFile) /\ [][C8_HighlightStep]_vars /\ [][C8_UnhighlightStep]_vars

\* Reached: the second filter and unfilter with both footprints highlighted
\* has ended, one asset file was ever created and it is still on disk.
C8_Witness ==
    /\ pc = "idle"
    /\ cycles = 2
    /\ call.undo
    /\ call.highlight = {"R1", "R2"}
    /\ fs.created = 1
    /\ fs.files /= {}
    /\ board = orig
    /\ \A i \in 1..Len(board) : Len(applied[i].models) = Len(board[i].models) + 1

\* --------------------------------------------------------------------- C9
\* C9: once the mutations of filter_pcb_components are applied, a footprint
\* whose component is known with included = false has nothing on the Fab
\* layers after a 2D pass and no 3D model of its own after a 3D pass.
C9_ExcludedHidden ==
    (call.kind = "pcb" /\ pc = "filtered" /\ CurHash /= None) =>
        \A i \in 1..Len(board) :
            LET c == HashGet(CurHash, board[i].ref)
            IN  (c /= None /\ ~c.included) =>
                    /\ call.do_2D => \A l \in FabLayers : OnLayer(board[i], l) = {}
                    /\ call.do_3D => \A k \in 1..Len(board[i].models) : board[i].models[k].hl

\* -------------------------------------------------------------------- C11
\* The footprints the per-component mutations record: `c and c.included and not c.fitted`.
Recorded(b) == {i \in 1..Len(b) : CurHash /= None /\ IsNotFitted(HashGet(CurHash, b[i].ref))}

\* The place of footprint i among the recorded footprints, in board order:
\* the record of i is the Rank-th one appended.
Rank(b, i) == Cardinality({j \in Recorded(b) : j <= i})

ItemIds(m) == {m.gi[k].id : k \in 1..Len(m.gi)}

Elements(l) == {l[k] : k \in 1..Len(l)}

PadsOf(rec) == [j \in 1..Len(rec) |-> ParseHex(rec[j])]

\* The place of the record the footprint visited as number k of n takes.
Place(fifo, n, k) == IF fifo THEN k ELSE n + 1 - k

\* What the three restore operations do to the recorded footprints when the
\* footprint visited as number k takes the record at Place(fifo, n, k).
RestoreTakes(fifo) ==
    /\ (pc = "uncross" /\ GS.global_cross_footprints_for_dnp) =>
        \A i \in Recorded(board) :
            ItemIds(board[i]) \ ItemIds(board'[i]) =
                Elements(self.extra_ffab_lines[Place(fifo, Cardinality(Recorded(board)), Rank(board, i))])
                \cup Elements(self.extra_bfab_lines[Place(fifo, Cardinality(Recorded(board)), Rank(board, i))])
    /\ (pc = "unpaste" /\ GS.global_remove_solder_paste_for_dnp) =>
        \A i \in Recorded(board) :
            board'[i].pads = PadsOf(self.old_layers[Place(fifo, Cardinality(Recorded(board)), Rank(board, i))])
    /\ pc = "restore3d" =>
        \A i \in Recorded(board) :
            board'[i].models = Reverse(self.rem_models[Place(fifo, Cardinality(Recorded(board)), Rank(board, i))]) \o board[i].models

\* C11 as stated: the record captured last is the one restored first.
C11_LastInFirstOut ==
    [][RestoreTakes(FALSE)]_vars

\* The records are lists in the order the footprints were visited, one per
\* recorded footprint (two footprints with one reference have two records).
C11_OnePerFootprint ==
    /\ (pc = "uncross" /\ GS.global_cross_footprints_for_dnp) =>
        /\ Len(self.extra_ffab_lines) = Cardinality(Recorded(board))
        /\ Len(self.extra_bfab_lines) = Cardinality(Recorded(board))
    /\ (pc = "unpaste" /\ GS.global_remove_solder_paste_for_dnp) =>
        Len(self.old_layers) = Cardinality(Recorded(board))
    /\ pc = "restore3d" => Len(self.rem_models) = Cardinality(Recorded(board))

\* Every record is consumed by its restore operation.
C11_AllConsumed ==
    /\ (pc = "uncross" /\ GS.global_cross_footprints_for_dnp) =>
        self'.extra_ffab_lines = <<>> /\ self'.extra_bfab_lines = <<>>
    /\ (pc = "unpaste" /\ GS.global_remove_solder_paste_for_dnp) => self'.old_layers = <<>>
    /\ pc = "restore3d" => self'.rem_models = <<>>

\* C11 as amended: the records are kept by position and consumed first in,
\* first out: the footprint visited as number k takes the record captured as
\* number k, which is the one captured from it.
C11_FirstInFirstOut ==
    /\ [](C11_OnePerFootprint)
    /\ [][RestoreTakes(TRUE) /\ C11_AllConsumed]_vars

\* Reached: both footprints with the reference R2 were recorded, with
\* different pads and models, and the undo has given the board back.
C11_Witness ==
    /\ pc = "idle"
    /\ call.undo /\ call.do_2D /\ call.do_3D
    /\ Cardinality(Recorded(board)) >= 2
    /\ \E i, j \in Recorded(board) :
        /\ board[i].ref = board[j].ref
        /\ board[i].pads /= board[j].pads
        /\ board[i].models /= board[j].models
    /\ GS.global_cross_footprints_for_dnp
    /\ GS.global_remove_solder_paste_for_dnp
    /\ applied /= orig
    /\ board = orig

\* -------------------------------------------------------------------- C14
\* set_scaling has autoscaled a board with a bounding box that is not empty.
Autoscaled == pc = "done" /\ call.kind = "set_scaling" /\ call.scaling.m = 0

\* scale * d compared with the bound D, both multiplied by k and by j.
TimesLeq(x, d, k, bound, j) == Num(x) * d * k <= bound * j * Den(x)

\* C14 as stated: scale*w <= W and scale*h <= H, with equality in one of the two.
C14_ExactFit ==
    Autoscaled =>
        /\ TimesLeq(call.scale, GS.board_w, 1, GS.paper_w, 1)
        /\ TimesLeq(call.scale, GS.board_h, 1, GS.paper_h, 1)
        /\ \/ Num(call.scale) * GS.board_w = GS.paper_w * Den(call.scale)
           \/ Num(call.scale) * GS.board_h = GS.paper_h * Den(call.scale)

\* C14 as amended: the same up to the rounding of the two divisions, a
\* relative error of 2^-MantissaBits at most: scale*w <= W*(1+u) and
\* scale*h <= H*(1+u), and scale*w >= W*(1-u) or scale*h >= H*(1-u).
C14_FitUpToRounding ==
    Autoscaled =>
        LET u == Pow2(MantissaBits)
        IN  /\ TimesLeq(call.scale, GS.board_w, u, GS.paper_w, u + 1)
            /\ TimesLeq(call.scale, GS.board_h, u, GS.paper_h, u + 1)
            /\ \/ Num(call.scale) * GS.board_w * u >= GS.paper_w * (u - 1) * Den(call.scale)
               \/ Num(call.scale) * GS.board_h * u >= GS.paper_h * (u - 1) * Den(call.scale)

\* Reached: an autoscale whose quotient is not a floating point number and
\* was rounded up, so that the board is wider than the paper by the rounding.
C14_Witness ==
    /\ Autoscaled
    /\ ~TimesLeq(call.scale, GS.board_w, 1, GS.paper_w, 1)
    /\ GS.paper_w * GS.board_h < GS.paper_h * GS.board_w

\* -------------------------------------------------------------------- C19
\* Run_DRC.run has run the DRC.
DRCRan == call.kind = "run_drc" /\ pc \in {"done", "exit"}

\* The process ends with DRC_ERROR exactly when the runner returns a non-zero code.
C19_ExitIffNonZero ==
    DRCRan => /\ (call.ret /= 0 <=> (pc = "exit" /\ err = "DRC_ERROR"))
              /\ (call.ret = 0 <=> (pc = "done" /\ trace = <<>>))

\* A code above 127 is reported as 256-ret DRC errors.
C19_Above127 ==
    (DRCRan /\ call.ret > 127) => trace = <<[msg |-> "DRC errors", n |-> 256 - call.ret]>>

\* C19 as stated: the exit, the codes above 127, and every other non-zero
\* code reported as the return code of the runner.
C19_OtherCodesReturned ==
    /\ C19_ExitIffNonZero
    /\ C19_Above127
    /\ (DRCRan /\ call.ret /= 0 /\ call.ret <= 127) =>
            trace = <<[msg |-> "DRC returned", n |-> call.ret]>>

\* C19 as amended: a negative code is reported as -ret DRC errors too; the
\* codes from 1 to 127 are reported as the return code of the runner.
C19_Report ==
    /\ C19_ExitIffNonZero
    /\ C19_Above127
    /\ (DRCRan /\ call.ret < 0) => trace = <<[msg |-> "DRC errors", n |-> -call.ret]>>
    /\ (DRCRan /\ call.ret > 0 /\ call.ret <= 127) =>
            trace = <<[msg |-> "DRC returned", n |-> call.ret]>>

\* Reached: the runner returned 253 and three DRC errors were reported.
C19_Witness ==
    /\ DRCRan
    /\ call.ret = 253
    /\ pc = "exit"
    /\ trace = <<[msg |-> "DRC errors", n |-> 3]>>

\* -------------------------------------------------------------------- C20
\* get_dependencies of an output with _sch_related: the files of the loaded
\* schematic, [GS.sch_file] when none is loaded; of any other output: [GS.pcb_file].
C20_Dependencies ==
    (pc = "done" /\ call.kind = "get_dependencies") =>
        /\ (self.sch_related /\ GS.sch.loaded) => call.result = GS.sch.files
        /\ (self.sch_related /\ ~GS.sch.loaded) => call.result = <<GS.sch_file>>
        /\ ~self.sch_related => call.result = <<GS.pcb_file>>

\* Reached: a schematic output without a loaded schematic got [GS.sch_file].
C20_Witness ==
    /\ pc = "done"
    /\ call.kind = "get_dependencies"
    /\ self.sch_related
    /\ ~GS.sch.loaded
    /\ GS.sch_file = "fake"
    /\ call.result = <<"fake">>

\* -------------------------------------------------------------------- C12
OpRank(op) ==
    CASE op = "filter_components" -> 0
      [] op \in {"plot", "extra", "mask", "mask_failed"} -> 1
      [] op = "frame" -> 2
      [] op = "merge" -> 3
      [] op = "convert" -> 4
      [] op = "join" -> 5
      [] op = "unfilter_components" -> 6

\* The steps of one page come in the order layers, frame, merge, conversion.
StepsInOrder ==
    \A i, j \in DOMAIN trace :
        (i < j /\ trace[i].page = trace[j].page /\ trace[i].page > 0) =>
            OpRank(trace[i].op) <= OpRank(trace[j].op)

\* The pad, via and mask passes follow the plot of their own layer, the mask last.
PassesFollowLayer ==
    \A j \in DOMAIN trace :
        trace[j].op \in {"extra", "mask", "mask_failed"} =>
            /\ j > 1
            /\ trace[j - 1].page = trace[j].page
            /\ trace[j - 1].name.base = trace[j].name.base
            /\ trace[j - 1].op \in {"plot", "extra"}
            /\ trace[j].op = "extra" => trace[j].name.kind /= "layer"

\* The intermediate files of page n in the order they were plotted.
PageInputs(n) ==
    LET evs == SelectSeq(trace, LAMBDA e : e.page = n /\ e.op \in {"plot", "extra", "frame"})
    IN  [i \in DOMAIN evs |-> evs[i].name]

MergedPages == {f \in fs.out \cup fs.tmp : f.name.kind = "page" /\ f.name.ext = "svg"}

\* A merged page holds the files of its page in the order of the plots, the frame last.
MergedInOrder ==
    \A f \in MergedPages :
        /\ f.content = PageInputs(f.name.page)
        /\ \A i \in DOMAIN f.content : f.content[i].kind = "frame" => i = Len(f.content)

\* When the merge is about to start every file of its list exists.
FilesBeforeMerge ==
    pc = "merge" => \A i \in DOMAIN call.filelist : call.filelist[i] \in Names(TempFiles)

InLoop == pc \in {"page", "layers", "frame", "merge", "join"}

\* The page file of page n: the merged page, or what it was converted to.
PageFileOf(n) ==
    IF self.format = "SVG" THEN PageTarget(n, "svg") ELSE FileName(n, "board", "page", "svg")

\* The loop goes to the next page only with the file of the page written,
\* and a run stops only when done, at a fatal exit or at a fatal error.
PageEnds ==
    /\ InLoop => \A n \in 1..(call.n - 1) : PageFileOf(n) \in Names(fs.out \cup TempFiles)
    /\ (pc \notin {"done", "exit", "failed"}) => ENABLED NextPrint

\* C12: for every page the layers (each with its pad and via passes and its
\* solder mask pass) are plotted, then the frame, then all the files are
\* merged in the order of the list with the frame last, then the page is
\* converted; the merge finds all its files, and a page ends with its file
\* or with a fatal end of the run.
C12_PageSteps ==
    /\ StepsInOrder
    /\ PassesFollowLayer
    /\ MergedInOrder
    /\ FilesBeforeMerge
    /\ PageEnds

\* Reached: a PNG run done, whose second page had a solder mask pass on
\* F.Mask, pad and via passes on F.Cu, a frame, a merge and a conversion.
C12_Witness ==
    /\ pc = "done"
    /\ self.format = "PNG"
    /\ \E i, j, k, l, m \in DOMAIN trace :
        /\ i < j /\ j < k /\ k < l /\ l < m
        /\ trace[i].page = 2 /\ trace[i].op = "mask"
        /\ trace[j].page = 2 /\ trace[j].op = "extra" /\ trace[j].name.kind = "vias_microvia"
        /\ trace[k].page = 2 /\ trace[k].op = "frame"
        /\ trace[l].page = 2 /\ trace[l].op = "merge"
        /\ trace[m].page = 2 /\ trace[m].op = "convert"

\* -------------------------------------------------------------------- C13
Autoscale == FMin(FDiv(GS.paper_w, GS.board_w), FDiv(GS.paper_h, GS.board_h))

Plots == {i \in DOMAIN trace : trace[i].op \in {"plot", "extra"}}

\* The scale of a page as written in the configuration, 0 for the autoscale.
ScaleOrAuto(scaling) == IF scaling.m = 0 THEN Autoscale ELSE scaling

\* C13 as stated: the scale of the page when it gives one, the autoscale
\* value when it gives none.
C13_AutoscaleWithoutPageScale ==
    \A i \in Plots :
        LET p == applied[trace[i].page]
        IN  trace[i].scale = IF p.scaling = NoScale THEN Autoscale ELSE ScaleOrAuto(p.scaling)

\* C13 as amended: a page that gives no scale takes the scaling of the
\* output; the autoscale value is used when the scale so found is 0.
C13_InheritedScale ==
    \A i \in Plots :
        LET p == applied[trace[i].page]
        IN  trace[i].scale = IF p.scaling = NoScale THEN ScaleOrAuto(self.scaling) ELSE ScaleOrAuto(p.scaling)

\* Reached: a page without a scale plotted at the 1.0 of the output, which
\* is not the autoscale value, and another one autoscaled.
C13_Witness ==
    /\ Autoscale /= Float(1)
    /\ \E i \in Plots : applied[trace[i].page].scaling = NoScale /\ trace[i].scale = Float(1)

\* -------------------------------------------------------------------- C15
Targets == Elements(get_targets(self))

\* C15: a run ended by a missing tool has written no page file of the output.
C15_NoPartialOutput ==
    (pc = "exit" /\ err = "MissingTool") => Names(fs.out) \cap Targets = {}

\* -------------------------------------------------------------------- C16
\* C16: a configuration error is raised before filter_components has begun.
C16_ConfigErrorsInConfig ==
    err = "KiPlotConfigurationError" =>
        /\ pc = "failed"
        /\ \A i \in DOMAIN trace : trace[i].op /= "filter_components"

\* -------------------------------------------------------------------- C17
\* C17: after a run the pages are what they were at the end of config.
C17_PagesNotMutated == pc = "done" => self.pages = orig

\* -------------------------------------------------------------------- C18
\* The output is one file of all the pages in order, or one file per page.
TargetsOfFormat ==
    LET t == get_targets(self)
        N == Len(self.pages)
    IN  IF self.format \in {"PDF", "PS"}
        THEN /\ Len(t) = 1
             /\ \E f \in fs.out :
                    /\ f.name = t[1]
                    /\ Len(f.content) = N
                    /\ \A n \in 1..N : f.content[n].page = n
        ELSE /\ Len(t) = N
             /\ \A n \in 1..N : t[n] = PageTarget(n, Lower(self.format)) /\ t[n] \in Names(fs.out)
             /\ \A f \in fs.out : f.name \in Targets => f.name.page \in 1..N

\* C18 as stated: the files of a successful run are exactly the targets.
C18_ExactlyTargets ==
    pc = "done" => TargetsOfFormat /\ Names(fs.out \cup fs.tmp) = Targets

\* C18 as amended: exactly the targets without keep_temporal_files; with it
\* the targets and the temporal files of the pages.
C18_TargetsAndTemporals ==
    pc = "done" =>
        /\ TargetsOfFormat
        /\ fs.tmp = {}
        /\ Targets \subseteq Names(fs.out)
        /\ ~self.keep_temporal_files => Names(fs.out) = Targets
        /\ self.keep_temporal_files =>
                \A f \in fs.out : f.name \notin Targets => f.name.base /= "assembly"

\* Reached: a PDF of two pages done, and temporal files kept beside it.
C18_Witness ==
    /\ pc = "done"
    /\ self.format = "PDF"
    /\ Len(self.pages) = 2
    /\ self.keep_temporal_files
    /\ Names(fs.out) /= Targets
    /\ \E f \in fs.out : f.name = DocTarget("pdf") /\ Len(f.content) = 2

\* -------------------------------------------------------------------- C21
GotTargets == call.kind = "get_targets" /\ pc \in {"done", "failed"}

BothRefLists == call.kind = "refs" /\ call.fitted_done /\ call.not_fitted_done

\* The references of the components at the positions S, in component order.
RECURSIVE Pick(_, _, _)
Pick(comps, S, k) ==
    IF k > Len(comps) THEN <<>>
    ELSE (IF k \in S THEN <<comps[k].ref>> ELSE <<>>) \o Pick(comps, S, k + 1)

\* C22: get_fitted_refs gives the references of the fitted and included
\* components, get_not_fitted_refs those of the components not fitted or not
\* included, both in component order; every component is in one of the two
\* and in one only; both are empty without a component list.
C22_RefsPartition ==
    BothRefLists =>
        LET comps == self.comps
            F == {i \in DOMAIN comps : comps[i].fitted /\ comps[i].included}
            N == {i \in DOMAIN comps : ~comps[i].fitted \/ ~comps[i].included}
        IN  /\ call.fitted = Pick(comps, F, 1)
            /\ call.not_fitted = Pick(comps, N, 1)
            /\ Len(call.fitted) + Len(call.not_fitted) = Len(comps)
            /\ \E owner \in [DOMAIN comps -> {"fitted", "not_fitted"}] :
                    /\ call.fitted = Pick(comps, {i \in DOMAIN comps : owner[i] = "fitted"}, 1)
                    /\ call.not_fitted = Pick(comps, {i \in DOMAIN comps : owner[i] = "not_fitted"}, 1)
            /\ comps = <<>> => call.fitted = <<>> /\ call.not_fitted = <<>>

\* Reached: three components, one fitted and included, one fitted but not
\* included and one not fitted, split one against two.
C22_Witness ==
    /\ BothRefLists
    /\ Len(self.comps) = 3
    /\ self.comps[1].fitted /\ ~self.comps[1].included
    /\ self.comps[2].fitted /\ self.comps[2].included
    /\ ~self.comps[3].fitted /\ self.comps[3].included
    /\ Len(call.fitted) = 1
    /\ Len(call.not_fitted) = 2

\* -------------------------------------------------------------------- C23
\* C23: when remove_3D_models has ended, no footprint whose component is
\* excluded (included = false) or not fitted has a 3D model left.
C23_ExcludedOrNotFittedRemoved ==
    (AfterRemove3D /\ pc = "hl" /\ CurHash /= None) =>
        \A i \in 1..Len(board) :
            LET c == HashGet(CurHash, board[i].ref)
            IN  (c /= None /\ (~c.included \/ ~c.fitted)) => board[i].models = <<>>

\* -------------------------------------------------------------------- C27
\* What remove_paste_and_glue, called with solder paste removal enabled and a
\* component list, does to the pads of a board.
PasteStep ==
    (pc = "paste" /\ pc' /= "paste" /\ GS.global_remove_solder_paste_for_dnp /\ CurHash /= None) =>
        /\ Len(board') = Len(board)
        /\ \A i \in 1..Len(board) :
            LET c == HashGet(CurHash, board[i].ref)
                old == board[i].pads
                new == board'[i].pads
            IN  /\ Len(new) = Len(old)
                /\ IF c /= None /\ c.included /\ ~c.fitted
                   THEN \A k \in 1..Len(old) :
                            /\ new[k] \cap PasteLayers = {}
                            /\ new[k] /= {}
                            /\ IF old[k] \ PasteLayers = {}
                               THEN new[k] = {IF "F.Paste" \in old[k] THEN "F.Mask" ELSE "B.Mask"}
                               ELSE new[k] = old[k] \ PasteLayers
                   ELSE new = old

\* C27: with solder paste removal enabled, remove_paste_and_glue leaves no pad
\* of an included and not fitted component on F.Paste or B.Paste and none
\* without a layer (a pad left without layers gets F.Mask if it was on
\* F.Paste, B.Mask otherwise), and the pads of every other footprint as they were.
C27_PasteRemoved == [][PasteStep]_vars

\* Reached: the pads of a not fitted component lost their paste, one pad that
\* was on B.Paste only is on B.Mask and one that was on both is on F.Mask,
\* while a fitted, an excluded or an unknown footprint kept its paste.
C27_Witness ==
    /\ call.kind \in {"print", "pcb"}
    /\ pc \in {"fab", "filtered"}
    /\ GS.global_remove_solder_paste_for_dnp
    /\ CurHash /= None
    /\ \E i, j \in 1..Len(board) :
        /\ IsNotFitted(HashGet(CurHash, board[i].ref))
        /\ Len(orig[i].pads) = 3
        /\ orig[i].pads[2] = {"B.Paste"} /\ board[i].pads[2] = {"B.Mask"}
        /\ orig[i].pads[3] = {"F.Paste", "B.Paste"} /\ board[i].pads[3] = {"F.Mask"}
        /\ ~IsNotFitted(HashGet(CurHash, board[j].ref))
        /\ board[j].pads = orig[j].pads
        /\ \E k \in 1..Len(board[j].pads) : board[j].pads[k] \cap PasteLayers /= {}

\* -------------------------------------------------------------------- C28
\* The footprint whose replace_3D_models call raises in remove_3D_models: the
\* first one handed to it with more than one model and another number of names.
FirstBadCount(b) ==
    LET bad == {i \in Replaced(b) :
                    /\ Len(b[i].models) > 1
                    /\ Len(b[i].models) /= Len(Split(FieldOf(b, i)))}
    IN  {i \in bad : \A j \in bad : i <= j}

\* C28: the call of replace_3D_models that raises the count error leaves the
\* footprint with the models it had before the call and stores no undo record.
C28_FailedCallStep ==
    (pc = "rem3d" /\ err' = "KiPlotConfigurationError") =>
        \A i \in FirstBadCount(board) :
            /\ board'[i].models = board[i].models
            /\ board[i].ref \notin DOMAIN self'.undo_3d_models_rep

C28_BoardUnchangedOnError == [][C28_FailedCallStep]_vars

\* -------------------------------------------------------------------- C30
\* C30: after remove_3D_models a fitted component with N > 1 models and N
\* names in its replacement field has the k-th name on its k-th model.
C30_NamesInModelOrder ==
    (AfterRemove3D /\ pc = "hl") =>
        \A i \in Replaced(orig) :
            LET names == Split(FieldOf(orig, i))
            IN  (Len(orig[i].models) > 1 /\ Len(names) = Len(orig[i].models)) =>
                    /\ Len(board[i].models) = Len(orig[i].models)
                    /\ \A k \in 1..Len(names) : board[i].models[k].file = names[k]

\* -------------------------------------------------------------------- C29
\* C29: with a component list and no variant, filter_pcb_components(do_3D)
\* and unfilter_pcb_components do not raise on the magic texts of the
\* footprints: no call of them ends with the AttributeError of a missing variant.
C29_NoVariantNoRaise ==
    (self.variant = None /\ ~NoComps(self.comps) /\ call.kind = "pcb" /\ call.do_3D) =>
        ~(pc = "failed" /\ err = "AttributeError")

\* -------------------------------------------------------------------- C25
MaskFailures == {j \in DOMAIN trace : trace[j].op = "mask_failed"}

\* The layer of this turn of the layer loop takes the solder mask pass.
MaskTurn ==
    /\ pc = "layers"
    /\ self.realistic_solder_mask
    /\ CurPage.layers[call.li].layer \in MaskLayers

\* The solder mask pass of a layer, PcbDraw found: the run goes on to the
\* next layer or the frame whatever the file of PcbDraw holds; a file without
\* defs or boardContainer is logged and leaves the plotted file of the layer
\* as it was plotted.
MaskStep ==
    (MaskTurn /\ ~(pc' = "exit" /\ err' = "MissingTool")) =>
        LET name == FileName(call.n, CurPage.layers[call.li].layer, "layer", "svg")
            last == trace'[Len(trace')]
            temp == IF self.keep_temporal_files THEN fs'.out ELSE fs'.tmp
        IN  /\ pc' \in {"layers", "frame"}
            /\ err' = ""
            /\ Len(trace') > Len(trace)
            /\ last.op \in {"mask", "mask_failed"}
            /\ last.name = name
            /\ call'.filelist[Len(call'.filelist)] = name
            /\ last.op = "mask_failed" => File(name, <<>>) \in temp
            /\ last.op = "mask" => File(name, <<>>) \notin temp

\* The layer of a failed mask pass stays as plotted and is merged into its page.
MaskFailureKept ==
    \A j \in MaskFailures :
        /\ (InLoop \/ self.keep_temporal_files) => File(trace[j].name, <<>>) \in TempFiles
        /\ (pc = "merge" /\ trace[j].page = call.n) =>
                \E i \in DOMAIN call.filelist : call.filelist[i] = trace[j].name
        /\ \A f \in MergedPages :
                f.name.page = trace[j].page => \E i \in DOMAIN f.content : f.content[i] = trace[j].name

\* C25: when the file of PcbDraw has no defs or no boardContainer, the
\* failure is logged, the plotted file of the layer is left as it was
\* plotted, and the run goes on with the next layer or the frame; the page
\* is merged with the layer as plotted.
C25_MaskFailureSkipped == [](MaskFailureKept) /\ [][MaskStep]_vars

\* Reached: a run done, whose page of F.Mask had the mask pass fail, with
\* the page file written.
C25_Witness ==
    /\ pc = "done"
    /\ err = ""
    /\ PerPageFormat(self.format)
    /\ \E j \in MaskFailures :
        /\ trace[j].name.base = "F.Mask"
        /\ \E f \in fs.out : f.name = PageTarget(trace[j].page, Lower(self.format))

\* -------------------------------------------------------------------- C26
\* C26: config ends for every set of outputs and every `extends` relation
\* among them, an output that extends itself and a cycle included: a chain
\* ends in a configuration error or in a configured output, never in
\* recursion without end.
C26_ConfigTerminates == err /= "RecursionError"

\* -------------------------------------------------------------------- C24
\* The options an output had in its own tree before any config.
OwnOptions(o) == orig.heap[OwnDict(o)]

\* The outputs configured after taking the options of a registered output.
Extended == {a \in OutNames : GS.outputs[a].configured /\ GS.outputs[a].extends \in OutNames}

\* An output that was extended is configured with its own value on every key
\* of its own options and the value of the extended output on the others.
ExtendedOptions ==
    \A a \in Extended :
        LET b == GS.outputs[GS.outputs[a].extends]
        IN  /\ b.configured
            /\ b.type = GS.outputs[a].type
            /\ \A k \in Keys :
                GS.outputs[a].options[k] =
                    IF OwnOptions(a)[k] /= 0 THEN OwnOptions(a)[k] ELSE b.options[k]

\* The step that takes the options of the extended output finds it configured
\* and leaves it, its tree included, as it was.
ExtendStep ==
    (pc = "config" /\ Top.step = "extend") =>
        LET b == GS.outputs[Top.out].extends
        IN  /\ GS.outputs[b].configured
            /\ GS'.outputs[b] = GS.outputs[b]
            /\ GS'.heap[GS.outputs[b].tree] = GS.heap[GS.outputs[b].tree]
            /\ GS.heap[GS.outputs[b].tree] = GS.outputs[b].options

\* An output not yet configured, whose extends names no registered output or
\* one of another type, makes config raise with nothing configured by it.
BadExtendsStep ==
    LET me == GS.outputs[Top.out]
    IN  (/\ pc = "config"
         /\ Top.step = "start"
         /\ ~me.configured
         /\ me.extends /= ""
         /\ (me.extends \notin OutNames \/ GS.outputs[me.extends].type /= me.type)) =>
            /\ pc' = "failed"
            /\ err' = IF me.extends \notin OutNames THEN "UnknownExtends" ELSE "AnotherType"
            /\ GS' = GS

\* C24: an output A that extends a registered output B of its type is
\* configured with the options of B under its own, the value of A on every
\* key both have; the tree of B is not changed and B is configured before its
\* options are taken; an unknown B or a B of another type is a configuration
\* error.
C24_ExtendsMergesOptions == [](ExtendedOptions) /\ [][ExtendStep /\ BadExtendsStep]_vars

\* Reached: a, with k1 of its own, configured from b, which has k1 and k2 and
\* extends c.
C24_Witness ==
    /\ pc = "idle"
    /\ "a" \in Extended
    /\ GS.outputs["a"].extends = "b"
    /\ GS.outputs["b"].extends = "c"
    /\ OwnOptions("a") = [k1 |-> 1, k2 |-> 0]
    /\ OwnOptions("b") = [k1 |-> 2, k2 |-> 0]
    /\ OwnOptions("c") = [k1 |-> 3, k2 |-> 3]
    /\ GS.outputs["a"].options = [k1 |-> 1, k2 |-> 3]
    /\ GS.outputs["b"].options = [k1 |-> 2, k2 |-> 3]
    /\ GS.heap[OwnDict("b")] = OwnOptions("b")

====
